---- MODULE Spec2Model ----
(***************************************************************************)
(* Model of the Joshua Project enrichment pipelines:                       *)
(*   enrich_with_coordinates.py   (people groups + languages, "geo")       *)
(*   create_enriched_datasets.py  (people group + country + language)      *)
(*                                                                         *)
(* Python values are tagged records, dicts are functions from field names  *)
(* to values, and every dict object lives in `heap` under its identity,    *)
(* so that copying and in-place assignment are distinguishable.            *)
(* A string is a sequence of tokens: "," and " " stand for themselves,     *)
(* any other token is a run of characters that holds neither.              *)
(***************************************************************************)
EXTENDS Integers, Sequences, FiniteSets, TLC

\* ------------------------------------------------------------------ bounds
MaxPrimary == 2
MaxReference == 2
MaxReport == 3

\* ------------------------------------------------------------ Python values
None == [t |-> "None"]
NaN == [t |-> "nan"]
Str(s) == [t |-> "str", s |-> s]
Num(n) == [t |-> "num", n |-> n]
Nested(d) == [t |-> "dict", d |-> d]
T(x) == Str(<<x>>)
EmptyStr == Str(<<>>)

truthy(v) ==
    CASE v.t = "None" -> FALSE
      [] v.t = "str" -> v.s # <<>>
      [] v.t = "num" -> v.n # 0
      [] OTHER -> TRUE

EmptyDict == [k \in {} |-> None]

dict_get(d, k, default) == IF k \in DOMAIN d THEN d[k] ELSE default

dict_update(d, upd) ==
    [k \in DOMAIN d \cup DOMAIN upd |-> IF k \in DOMAIN upd THEN upd[k] ELSE d[k]]

\* d[k] = v
dict_set_keep_first(d, k, v) ==
    [x \in DOMAIN d \cup {k} |-> IF x \in DOMAIN d THEN d[x] ELSE v]
dict_set(d, k, v) ==
    [x \in DOMAIN d \cup {k} |-> IF x = k THEN v ELSE d[x]]

SeqsUpTo(S, n) == UNION {[1..m -> S] : m \in 0..n}

Refs(from, n) == [j \in 1..n |-> from + j]

\* --------------------------------------------------------------- identities
\* d.copy(): a new object, whose identity is the next free one
dict_copy_alias(h, src) == src
dict_copy(h, src) == Len(h) + 1

\* the heap after object `ref` has received contents d
heap_put(h, ref, d) ==
    IF ref \in DOMAIN h THEN [h EXCEPT ![ref] = d] ELSE Append(h, d)

list_append_front(l, x) == <<x>> \o l
list_append(l, x) == Append(l, x)

\* -------------------------------------------------------------------- state
VARIABLES
    prog, pc, error,
    heap,
    people_groups, languages, centroids, glottolog, glottolog_languoid,
    centroid_lookup, glottolog_lookup, family_lookup, glottocode_to_family,
    i, enriched,
    matched_pg, unmatched_countries, matched_lang, unmatched_iso_codes,
    people_groups_enriched, languages_enriched, files,
    countries, totals, lookups, enriched_records, unreached,
    stdout,
    compact_groups, stats, results

vars == <<prog, pc, error, heap,
          people_groups, languages, centroids, glottolog, glottolog_languoid,
          centroid_lookup, glottolog_lookup, family_lookup, glottocode_to_family,
          i, enriched,
          matched_pg, unmatched_countries, matched_lang, unmatched_iso_codes,
          people_groups_enriched, languages_enriched, files,
          countries, totals, lookups, enriched_records, unreached, stdout,
          compact_groups, stats, results>>

inputs == <<people_groups, languages, centroids, glottolog, glottolog_languoid,
            countries, totals>>
lookup_tables == <<centroid_lookup, glottolog_lookup, family_lookup, glottocode_to_family>>
pg_tally == <<matched_pg, unmatched_countries>>
lang_tally == <<matched_lang, unmatched_iso_codes>>
geo_state == <<lookup_tables, pg_tally, lang_tally, people_groups_enriched,
               languages_enriched>>
full_state == <<lookups, enriched_records, unreached>>
viz_state == <<compact_groups, stats>>
fetch_state == <<results>>

\* ------------------------------------------------------------ string helpers
\* str(v)
py_str(v) ==
    CASE v.t = "str" -> v.s
      [] v.t = "None" -> <<"None">>
      [] v.t = "nan" -> <<"nan">>
      [] v.t = "num" -> <<ToString(v.n)>>
      [] OTHER -> <<"{...}">>

RECURSIVE lstrip(_)
lstrip(s) == IF s # <<>> /\ Head(s) = " " THEN lstrip(Tail(s)) ELSE s

RECURSIVE rstrip(_)
rstrip(s) ==
    IF s # <<>> /\ s[Len(s)] = " " THEN rstrip(SubSeq(s, 1, Len(s) - 1)) ELSE s

\* s.strip()
strip(s) == rstrip(lstrip(s))

\* s.split(','): the pieces between the commas, empty pieces included
RECURSIVE split(_)
split_whole(s) == <<s>>
split(s) ==
    IF \A j \in 1..Len(s) : s[j] # ","
    THEN <<s>>
    ELSE LET c == CHOOSE j \in 1..Len(s) :
                      s[j] = "," /\ \A m \in 1..(j - 1) : s[m] # ","
         IN <<SubSeq(s, 1, c - 1)>> \o split(SubSeq(s, c + 1, Len(s)))

\* pd.isna / pd.notna on a scalar
pd_isna(v) == v.t \in {"None", "nan"}
pd_notna(v) == ~pd_isna(v)

\* ---------------------------------------------------------------- reports
\* f'{num / den:.1f}%': the quotient rounded to the nearest tenth, a tie to the
\* even tenth, as text
tenths_floor(num, den) == (10 * num) \div den
tenths(num, den) ==
    LET q == (10 * num) \div den
        r == (10 * num) % den
    IN IF 2 * r > den \/ (2 * r = den /\ q % 2 = 1) THEN q + 1 ELSE q
format_1f(num, den) ==
    <<ToString(tenths(num, den) \div 10), ".", ToString(tenths(num, den) % 10), "%">>

\* print(f"   Matched {matched:,} / {len(...):,} ({match_rate:.1f}%)")
match_report(pass, matched, total) ==
    [pass |-> pass, matched |-> matched, total |-> total,
     rate |-> format_1f(100 * matched, total)]

\* if code: unmatched.add(code)
record_unmatched_any(unmatched, code) == unmatched \cup {code}
record_unmatched(unmatched, code) ==
    IF truthy(code) THEN unmatched \cup {code} ELSE unmatched

\* --------------------------------------------------- build_lookup_tables
\* centroid_lookup after the first n countries
RECURSIVE centroid_index(_, _, _)
centroid_index(h, cs, n) ==
    IF n = 0 THEN EmptyDict
    ELSE LET prev == centroid_index(h, cs, n - 1)
             country == h[cs[n]]
             iso_a2 == dict_get(country, "iso_a2", None)
             iso_a3 == dict_get(country, "iso_a3", None)
             with_a2 == IF truthy(iso_a2) THEN dict_set(prev, iso_a2, cs[n]) ELSE prev
         IN IF truthy(iso_a3) THEN dict_set(with_a2, iso_a3, cs[n]) ELSE with_a2

\* if code not in glottolog_lookup: glottolog_lookup[code] = [];
\* glottolog_lookup[code].append(lang)
list_under_key_prepend(lookup, key, ref) ==
    dict_set(lookup, key, <<ref>> \o dict_get(lookup, key, <<>>))
list_under_key_append(lookup, key, ref) ==
    dict_set(lookup, key, Append(dict_get(lookup, key, <<>>), ref))

\* one glottolog entry appended under each code of `codes`, in order
RECURSIVE glottolog_add(_, _, _)
glottolog_add(lookup, codes, ref) ==
    IF codes = <<>> THEN lookup
    ELSE LET code == strip(Head(codes))
             key == Str(code)
             next == IF code # <<>>
                     THEN list_under_key_append(lookup, key, ref)
                     ELSE lookup
         IN glottolog_add(next, Tail(codes), ref)

\* glottolog_lookup after the first n entries
RECURSIVE glottolog_index(_, _, _)
glottolog_index(h, gs, n) ==
    IF n = 0 THEN EmptyDict
    ELSE LET prev == glottolog_index(h, gs, n - 1)
             lang == h[gs[n]]
             iso_codes == strip(py_str(dict_get(lang, "isocodes", EmptyStr)))
         IN IF iso_codes # <<>> /\ iso_codes # <<"nan">>
            THEN glottolog_add(prev, split(iso_codes), gs[n])
            ELSE prev

\* family_lookup after the first n rows of glottolog_languoid
RECURSIVE family_index(_, _)
family_index(rows, n) ==
    IF n = 0 THEN EmptyDict
    ELSE LET prev == family_index(rows, n - 1)
             row == rows[n]
         IN IF row.level = T("family") THEN dict_set(prev, row.id, row.name) ELSE prev

\* glottocode_to_family after the first n rows of glottolog_languoid
RECURSIVE glottocode_family_index(_, _)
glottocode_family_index(rows, n) ==
    IF n = 0 THEN EmptyDict
    ELSE LET prev == glottocode_family_index(rows, n - 1)
             row == rows[n]
         IN IF pd_notna(row.family_id) THEN dict_set(prev, row.id, row.family_id) ELSE prev

build_lookup_tables ==
    /\ prog = "geo" /\ pc = "build_lookup_tables"
    /\ centroid_lookup' = centroid_index(heap, centroids, Len(centroids))
    /\ glottolog_lookup' = glottolog_index(heap, glottolog, Len(glottolog))
    /\ family_lookup' = family_index(glottolog_languoid, Len(glottolog_languoid))
    /\ glottocode_to_family' =
           glottocode_family_index(glottolog_languoid, Len(glottolog_languoid))
    /\ pc' = "enrich_people_groups"
    /\ i' = 1 /\ enriched' = <<>> /\ matched_pg' = 0 /\ unmatched_countries' = {}
    /\ UNCHANGED <<prog, error, heap, inputs, lang_tally,
                   people_groups_enriched, languages_enriched, files, stdout>>
    /\ UNCHANGED full_state
    /\ UNCHANGED <<viz_state, fetch_state>>

\* --------------------------------------------------- enrich_people_groups
NATURAL_EARTH == Str(<<"Natural Earth (country centroid)">>)

\* the field names enrich_people_groups assigns
PG_NEW_FIELDS ==
    {"country_latitude", "country_longitude", "continent", "region_un",
     "coordinate_source"}

\* centroid['latitude'] / centroid['longitude'] raise KeyError on an absent field
pg_hit_raises(centroid) == ~({"latitude", "longitude"} \subseteq DOMAIN centroid)

\* the assignments of the hit branch, as far as they get
pg_hit_fields_swapped(centroid) ==
    [country_latitude |-> dict_get(centroid, "longitude", None),
     country_longitude |-> dict_get(centroid, "latitude", None),
     continent |-> dict_get(centroid, "continent", EmptyStr),
     region_un |-> dict_get(centroid, "region_un", EmptyStr),
     coordinate_source |-> NATURAL_EARTH]
pg_hit_fields(centroid) ==
    IF "latitude" \notin DOMAIN centroid THEN EmptyDict
    ELSE IF "longitude" \notin DOMAIN centroid
    THEN [k \in {"country_latitude"} |-> centroid["latitude"]]
    ELSE [country_latitude |-> centroid["latitude"],
          country_longitude |-> centroid["longitude"],
          continent |-> dict_get(centroid, "continent", EmptyStr),
          region_un |-> dict_get(centroid, "region_un", EmptyStr),
          coordinate_source |-> NATURAL_EARTH]

\* the assignments of the miss branch
pg_miss_fields_tagged ==
    [country_latitude |-> None, country_longitude |-> None, continent |-> None,
     region_un |-> None, coordinate_source |-> NATURAL_EARTH]
pg_miss_fields ==
    [country_latitude |-> None, country_longitude |-> None, continent |-> None,
     region_un |-> None, coordinate_source |-> None]

\* one iteration of the loop over people_groups
enrich_people_groups_iter ==
    /\ prog = "geo" /\ pc = "enrich_people_groups" /\ i <= Len(people_groups)
    /\ LET pg == people_groups[i]
           pg_enriched == dict_copy(heap, pg)
           h1 == heap_put(heap, pg_enriched, heap[pg])
           country_code == dict_get(h1[pg], "ROG3", EmptyStr)
           hit == country_code \in DOMAIN centroid_lookup
           centroid == h1[centroid_lookup[country_code]]
           raises == hit /\ pg_hit_raises(centroid)
           upd == IF hit THEN pg_hit_fields(centroid) ELSE pg_miss_fields
       IN /\ heap' = heap_put(h1, pg_enriched, dict_update(h1[pg_enriched], upd))
          /\ IF raises
             THEN /\ pc' = "failed" /\ error' = "KeyError"
                  /\ UNCHANGED <<i, enriched, pg_tally>>
             ELSE /\ enriched' = list_append(enriched, pg_enriched)
                  /\ i' = i + 1
                  /\ matched_pg' = IF hit THEN matched_pg + 1 ELSE matched_pg
                  /\ unmatched_countries' =
                         IF ~hit
                         THEN record_unmatched(unmatched_countries, country_code)
                         ELSE unmatched_countries
                  /\ UNCHANGED <<pc, error>>
    /\ UNCHANGED <<prog, inputs, lookup_tables, lang_tally,
                   people_groups_enriched, languages_enriched, files, stdout>>
    /\ UNCHANGED full_state
    /\ UNCHANGED <<viz_state, fetch_state>>

\* after the loop: the match rate (a division by len(people_groups)), return
enrich_people_groups_return ==
    /\ prog = "geo" /\ pc = "enrich_people_groups" /\ i > Len(people_groups)
    /\ IF Len(people_groups) = 0
       THEN /\ pc' = "failed" /\ error' = "ZeroDivisionError"
            /\ UNCHANGED <<i, enriched, people_groups_enriched, lang_tally, stdout>>
       ELSE /\ people_groups_enriched' = enriched
            /\ stdout' = Append(stdout,
                   match_report("people_groups", matched_pg, Len(people_groups)))
            /\ pc' = "enrich_languages"
            /\ i' = 1 /\ enriched' = <<>>
            /\ matched_lang' = 0 /\ unmatched_iso_codes' = {}
            /\ UNCHANGED error
    /\ UNCHANGED <<prog, heap, inputs, lookup_tables, pg_tally, languages_enriched, files>>
    /\ UNCHANGED full_state
    /\ UNCHANGED <<viz_state, fetch_state>>

\* -------------------------------------------------------- enrich_languages
ISOLATE == Str(<<"Isolate">>)
GLOTTOLOG == Str(<<"Glottolog">>)

\* the field names enrich_languages assigns
LANG_NEW_FIELDS ==
    {"latitude", "longitude", "glottocode", "family_name", "family_id",
     "macroarea", "coordinate_source", "glottolog_match_count"}

\* resolve_family with the glottocode's own entry consulted first
resolve_family_self_first(glottocode, fl, g2f) ==
    IF truthy(glottocode) /\ glottocode \in DOMAIN fl
    THEN [family_name |-> fl[glottocode], family_id |-> glottocode]
    ELSE IF truthy(glottocode) /\ glottocode \in DOMAIN g2f
    THEN [family_name |-> dict_get(fl, g2f[glottocode], EmptyStr),
          family_id |-> g2f[glottocode]]
    ELSE [family_name |-> IF truthy(glottocode) THEN ISOLATE ELSE EmptyStr,
          family_id |-> EmptyStr]

\* resolve_family without the fallback to the glottocode's own entry
resolve_family_no_fallback(glottocode, fl, g2f) ==
    IF truthy(glottocode) /\ glottocode \in DOMAIN g2f
    THEN [family_name |-> dict_get(fl, g2f[glottocode], EmptyStr),
          family_id |-> g2f[glottocode]]
    ELSE [family_name |-> IF truthy(glottocode) THEN ISOLATE ELSE EmptyStr,
          family_id |-> EmptyStr]

\* family name and id of a glottocode: glottocode -> family_id -> family_name,
\* else the glottocode's own family-level entry, else isolate / unknown
resolve_family(glottocode, fl, g2f) ==
    IF truthy(glottocode) /\ glottocode \in DOMAIN g2f
    THEN [family_name |-> dict_get(fl, g2f[glottocode], EmptyStr),
          family_id |-> g2f[glottocode]]
    ELSE IF truthy(glottocode) /\ glottocode \in DOMAIN fl
    THEN [family_name |-> fl[glottocode], family_id |-> glottocode]
    ELSE [family_name |-> IF truthy(glottocode) THEN ISOLATE ELSE EmptyStr,
          family_id |-> EmptyStr]

\* the assignments of the hit branch; glotto is the first entry of glotto_entries
lang_hit_fields_tag_with_coordinates(glotto, glotto_entries, fl, g2f) ==
    LET lat == dict_get(glotto, "latitude", None)
        lng == dict_get(glotto, "longitude", None)
        glottocode == dict_get(glotto, "glottocode", EmptyStr)
        family == resolve_family(glottocode, fl, g2f)
    IN [latitude |-> IF pd_isna(lat) THEN None ELSE lat,
        longitude |-> IF pd_isna(lng) THEN None ELSE lng,
        glottocode |-> glottocode,
        family_name |-> family.family_name,
        family_id |-> family.family_id,
        macroarea |-> dict_get(glotto, "macroarea", EmptyStr),
        coordinate_source |-> IF pd_isna(lat) THEN None ELSE GLOTTOLOG,
        glottolog_match_count |-> Num(Len(glotto_entries))]
lang_hit_fields(glotto, glotto_entries, fl, g2f) ==
    LET lat == dict_get(glotto, "latitude", None)
        lng == dict_get(glotto, "longitude", None)
        glottocode == dict_get(glotto, "glottocode", EmptyStr)
        family == resolve_family(glottocode, fl, g2f)
    IN [latitude |-> IF pd_isna(lat) THEN None ELSE lat,
        longitude |-> IF pd_isna(lng) THEN None ELSE lng,
        glottocode |-> glottocode,
        family_name |-> family.family_name,
        family_id |-> family.family_id,
        macroarea |-> dict_get(glotto, "macroarea", EmptyStr),
        coordinate_source |-> GLOTTOLOG,
        glottolog_match_count |-> Num(Len(glotto_entries))]

\* glotto_entries[0]: the entry enrich_languages reads its fields from
take_last_match(glotto_entries) == glotto_entries[Len(glotto_entries)]
take_first_match(glotto_entries) == glotto_entries[1]

\* the assignments of the miss branch
lang_miss_fields_uncounted ==
    [latitude |-> None, longitude |-> None, glottocode |-> None,
     family_name |-> None, family_id |-> None, macroarea |-> None,
     coordinate_source |-> None, glottolog_match_count |-> None]
lang_miss_fields ==
    [latitude |-> None, longitude |-> None, glottocode |-> None,
     family_name |-> None, family_id |-> None, macroarea |-> None,
     coordinate_source |-> None, glottolog_match_count |-> Num(0)]

\* glottolog_lookup after `iso_code in glottolog_lookup` and
\* glottolog_lookup[iso_code]: a plain dict is left as it is by a read
dict_after_read_defaulting(lookup, key) ==
    IF key \in DOMAIN lookup THEN lookup ELSE dict_set(lookup, key, <<>>)
dict_after_read(lookup, key) == lookup

\* one iteration of the loop over languages
enrich_languages_iter ==
    /\ prog = "geo" /\ pc = "enrich_languages" /\ i <= Len(languages)
    /\ LET lang == languages[i]
           lang_enriched == dict_copy(heap, lang)
           h1 == heap_put(heap, lang_enriched, heap[lang])
           iso_code == dict_get(h1[lang], "ROL3", EmptyStr)
           hit == truthy(iso_code) /\ iso_code \in DOMAIN glottolog_lookup
           glotto_entries == glottolog_lookup[iso_code]
           glotto == h1[take_first_match(glotto_entries)]
           upd == IF hit
                  THEN lang_hit_fields(glotto, glotto_entries, family_lookup,
                                       glottocode_to_family)
                  ELSE lang_miss_fields
       IN /\ heap' = heap_put(h1, lang_enriched, dict_update(h1[lang_enriched], upd))
          /\ enriched' = list_append(enriched, lang_enriched)
          /\ i' = i + 1
          /\ matched_lang' = IF hit THEN matched_lang + 1 ELSE matched_lang
          /\ unmatched_iso_codes' =
                 IF ~hit
                 THEN record_unmatched(unmatched_iso_codes, iso_code)
                 ELSE unmatched_iso_codes
          /\ glottolog_lookup' = dict_after_read(glottolog_lookup, iso_code)
    /\ UNCHANGED <<prog, pc, error, inputs, centroid_lookup, family_lookup,
                   glottocode_to_family, pg_tally,
                   people_groups_enriched, languages_enriched, files, stdout>>
    /\ UNCHANGED full_state
    /\ UNCHANGED <<viz_state, fetch_state>>

\* after the loop: the match rate (a division by len(languages)), return
enrich_languages_return ==
    /\ prog = "geo" /\ pc = "enrich_languages" /\ i > Len(languages)
    /\ IF Len(languages) = 0
       THEN /\ pc' = "failed" /\ error' = "ZeroDivisionError"
            /\ UNCHANGED <<languages_enriched, stdout>>
       ELSE /\ languages_enriched' = enriched
            /\ stdout' = Append(stdout,
                   match_report("languages", matched_lang, Len(languages)))
            /\ pc' = "save_enriched_data"
            /\ UNCHANGED error
    /\ UNCHANGED <<prog, heap, inputs, lookup_tables, i, enriched, pg_tally,
                   lang_tally, people_groups_enriched, files>>
    /\ UNCHANGED full_state
    /\ UNCHANGED <<viz_state, fetch_state>>

\* ------------------------------------------------------ save_enriched_data
RECURSIVE count_truthy(_, _, _, _)
count_truthy(h, refs, field, n) ==
    IF n = 0 THEN 0
    ELSE count_truthy(h, refs, field, n - 1)
         + (IF truthy(dict_get(h[refs[n]], field, None)) THEN 1 ELSE 0)

save_enriched_data ==
    /\ prog = "geo" /\ pc = "save_enriched_data"
    /\ files' =
         [joshua_project_enriched_geo |->
              [j \in DOMAIN people_groups_enriched |-> heap[people_groups_enriched[j]]],
          joshua_project_languages_enriched_geo |->
              [j \in DOMAIN languages_enriched |-> heap[languages_enriched[j]]],
          enrichment_metadata |->
              [people_groups |->
                   [total |-> Len(people_groups_enriched),
                    with_coordinates |->
                        count_truthy(heap, people_groups_enriched, "country_latitude",
                                     Len(people_groups_enriched))],
               languages |->
                   [total |-> Len(languages_enriched),
                    with_coordinates |->
                        count_truthy(heap, languages_enriched, "latitude",
                                     Len(languages_enriched))]]]
    /\ pc' = "done"
    /\ UNCHANGED <<prog, error, heap, inputs, lookup_tables, i, enriched, pg_tally,
                   lang_tally, people_groups_enriched, languages_enriched, stdout>>
    /\ UNCHANGED full_state
    /\ UNCHANGED <<viz_state, fetch_state>>

\* ------------------------------------------- create_enriched_datasets.py
\* {r[field]: r for r in refs}: r[field] raises KeyError on an absent field
key_index_raises(h, refs, field) ==
    \E j \in DOMAIN refs : field \notin DOMAIN h[refs[j]]

RECURSIVE key_index(_, _, _, _)
key_index(h, refs, field, n) ==
    IF n = 0 THEN EmptyDict
    ELSE dict_set(key_index(h, refs, field, n - 1), h[refs[n]][field], refs[n])

create_lookups ==
    /\ prog = "full" /\ pc = "create_lookups"
    /\ IF \/ key_index_raises(heap, countries, "ROG3")
          \/ key_index_raises(heap, languages, "ROL3")
          \/ key_index_raises(heap, totals, "id")
       THEN /\ pc' = "crashed" /\ error' = "KeyError"
            /\ UNCHANGED <<lookups, i>>
       ELSE /\ lookups' =
                  [countries |-> key_index(heap, countries, "ROG3", Len(countries)),
                   languages |-> key_index(heap, languages, "ROL3", Len(languages)),
                   totals |-> key_index(heap, totals, "id", Len(totals))]
            /\ pc' = "create_full_enriched"
            /\ i' = 1
            /\ UNCHANGED error
    /\ UNCHANGED <<prog, heap, inputs, geo_state, enriched, files, stdout,
                   enriched_records, unreached>>
    /\ UNCHANGED <<viz_state, fetch_state>>

\* the nested group built from the matched country
country_data(country) ==
    Nested([name |-> dict_get(country, "Ctry", None),
            continent |-> dict_get(country, "Continent", None),
            region |-> dict_get(country, "RegionName", None),
            percent_christianity |-> dict_get(country, "PercentChristianity", None),
            percent_evangelical |-> dict_get(country, "PercentEvangelical", None),
            total_peoples |-> dict_get(country, "CntPeoples", None),
            unreached_peoples |-> dict_get(country, "CntPeoplesLR", None),
            jp_scale |-> dict_get(country, "JPScaleCtry", None)])

\* the nested group built from the matched language
language_data(language) ==
    Nested([name |-> dict_get(language, "Language", None),
            hub_country |-> dict_get(language, "HubCountry", None),
            bible_status |-> dict_get(language, "BibleStatus", None),
            bible_year |-> dict_get(language, "BibleYear", None),
            nt_year |-> dict_get(language, "NTYear", None),
            portions_year |-> dict_get(language, "PortionsYear", None),
            has_jesus_film |-> dict_get(language, "HasJesusFilm", None),
            has_audio_recordings |-> dict_get(language, "AudioRecordings", None),
            status |-> dict_get(language, "Status", None),
            latitude |-> dict_get(language, "latitude", None),
            longitude |-> dict_get(language, "longitude", None),
            glottocode |-> dict_get(language, "glottocode", None),
            family_name |-> dict_get(language, "family_name", None),
            family_id |-> dict_get(language, "family_id", None),
            macroarea |-> dict_get(language, "macroarea", None)])

\* the field names enrich_people_group may assign
FULL_NEW_FIELDS == {"country_data", "language_data"}

\* the assignments enrich_people_group makes to the copy of people_group
full_fields_chained(h, people_group, lk) ==
    LET country_code == dict_get(people_group, "ROG3", None)
        language_code == dict_get(people_group, "ROL3", None)
        c_hit == truthy(country_code) /\ country_code \in DOMAIN lk.countries
        l_hit == c_hit /\ truthy(language_code)
                 /\ language_code \in DOMAIN lk.languages
        c_upd == IF c_hit
                 THEN [k \in {"country_data"} |->
                          country_data(h[lk.countries[country_code]])]
                 ELSE EmptyDict
        l_upd == IF l_hit
                 THEN [k \in {"language_data"} |->
                          language_data(h[lk.languages[language_code]])]
                 ELSE EmptyDict
    IN dict_update(c_upd, l_upd)
full_fields(h, people_group, lk) ==
    LET country_code == dict_get(people_group, "ROG3", None)
        language_code == dict_get(people_group, "ROL3", None)
        c_hit == truthy(country_code) /\ country_code \in DOMAIN lk.countries
        l_hit == truthy(language_code) /\ language_code \in DOMAIN lk.languages
        c_upd == IF c_hit
                 THEN [k \in {"country_data"} |->
                          country_data(h[lk.countries[country_code]])]
                 ELSE EmptyDict
        l_upd == IF l_hit
                 THEN [k \in {"language_data"} |->
                          language_data(h[lk.languages[language_code]])]
                 ELSE EmptyDict
    IN dict_update(c_upd, l_upd)

\* one iteration of the loop of create_full_enriched: enrich_people_group(pg, lookups)
create_full_enriched_iter ==
    /\ prog = "full" /\ pc = "create_full_enriched" /\ i <= Len(people_groups)
    /\ LET pg == people_groups[i]
           new == dict_copy(heap, pg)
           h1 == heap_put(heap, new, heap[pg])
           upd == full_fields(h1, h1[pg], lookups)
       IN /\ heap' = heap_put(h1, new, dict_update(h1[new], upd))
          /\ enriched_records' = list_append(enriched_records, new)
          /\ i' = i + 1
    /\ UNCHANGED <<prog, pc, error, inputs, geo_state, enriched, files, stdout, lookups,
                   unreached>>
    /\ UNCHANGED <<viz_state, fetch_state>>

create_full_enriched_return ==
    /\ prog = "full" /\ pc = "create_full_enriched" /\ i > Len(people_groups)
    /\ pc' = "create_unreached_subset"
    /\ UNCHANGED <<prog, error, heap, inputs, geo_state, i, enriched, files, stdout,
                   full_state>>
    /\ UNCHANGED <<viz_state, fetch_state>>

\* [r for r in enriched_records if r.get('LeastReached') == 'Y']
RECURSIVE filter_least_reached(_, _, _)
filter_least_reached(h, refs, n) ==
    IF n = 0 THEN <<>>
    ELSE LET rest == filter_least_reached(h, refs, n - 1)
         IN IF dict_get(h[refs[n]], "LeastReached", None) = T("Y")
            THEN Append(rest, refs[n])
            ELSE rest

\* data_utilities.filter_unreached(data) for a given list
filter_unreached(h, data) == filter_least_reached(h, data, Len(data))

\* the filter, then the printed share (a division by len(enriched_records))
create_unreached_subset ==
    /\ prog = "full" /\ pc = "create_unreached_subset"
    /\ IF Len(enriched_records) = 0
       THEN /\ pc' = "crashed" /\ error' = "ZeroDivisionError"
            /\ UNCHANGED unreached
       ELSE /\ unreached' =
                  filter_least_reached(heap, enriched_records, Len(enriched_records))
            /\ pc' = "save_outputs"
            /\ UNCHANGED error
    /\ UNCHANGED <<prog, heap, inputs, geo_state, i, enriched, files, stdout, lookups,
                   enriched_records>>
    /\ UNCHANGED <<viz_state, fetch_state>>

\* save_json of the full and the unreached dataset
save_outputs ==
    /\ prog = "full" /\ pc = "save_outputs"
    /\ files' =
         [joshua_project_enriched |->
              [j \in DOMAIN enriched_records |-> heap[enriched_records[j]]],
          joshua_project_unreached |->
              [j \in DOMAIN unreached |-> heap[unreached[j]]]]
    /\ pc' = "done"
    /\ UNCHANGED <<prog, error, heap, inputs, geo_state, i, enriched, full_state,
                   stdout>>
    /\ UNCHANGED <<viz_state, fetch_state>>


\* ------------------------------------------------------------------ inputs
\* people groups of joshua_project_full_dump.json
PGRecords ==
    {[PeopleID3 |-> Num(1)],
     [ROG3 |-> EmptyStr, PeopleID3 |-> Num(2)],
     [ROG3 |-> T("USA"), PeopleID3 |-> Num(1)],
     [ROG3 |-> T("CAN")],
     [ROG3 |-> T("USA"), continent |-> T("Asia")],
     [ROG3 |-> None, coordinate_source |-> T("survey")]}

\* countries of country_centroids.json
CentroidRecords ==
    {[iso_a2 |-> T("US"), iso_a3 |-> T("USA"), latitude |-> Num(10),
      longitude |-> Num(20), continent |-> T("North America"),
      region_un |-> T("Americas")],
     [iso_a3 |-> T("USA"), latitude |-> Num(0), longitude |-> None,
      continent |-> None, region_un |-> T("Americas")],
     [iso_a3 |-> T("CAN"), latitude |-> Num(60), longitude |-> Num(-95)],
     [iso_a3 |-> T("USA"), longitude |-> Num(20), continent |-> T("North America")],
     [iso_a2 |-> EmptyStr, iso_a3 |-> None, latitude |-> Num(1), longitude |-> Num(2)]}

\* language lists of joshua_project_languages.json
FamilyLanguages ==
    {<<[ROL3 |-> T("eng"), Language |-> T("English")]>>,
     <<[ROL3 |-> T("xyz")], [ROL3 |-> T("eng"), Language |-> T("English")]>>}

\* entries of glottolog_coordinates.json
GlottoRecords ==
    {[isocodes |-> T("eng"), glottocode |-> T("abc1234"), latitude |-> Num(53),
      longitude |-> Num(-1), macroarea |-> T("Eurasia")],
     [isocodes |-> T("eng"), glottocode |-> EmptyStr, latitude |-> NaN],
     [isocodes |-> T("eng"), longitude |-> Num(7)],
     [isocodes |-> T("xyz"), glottocode |-> T("fam001")]}

\* languages, glottolog entries and languoid rows for the dialect index:
\* comma-separated and repeated codes, entries without a usable code, and
\* coordinates that are missing, NaN or text
DialectLanguages ==
    {[ROL3 |-> T("eng"), Language |-> T("English")],
     [ROL3 |-> T("zzz"), Language |-> T("Zed")],
     [ROL3 |-> EmptyStr],
     [Language |-> T("Uncoded"), glottocode |-> T("own0000")]}

DialectRecords ==
    {[isocodes |-> T("eng"), glottocode |-> T("stan1293"), latitude |-> Num(53),
      longitude |-> Num(-1), macroarea |-> T("Eurasia")],
     [isocodes |-> Str(<<"eng", ",", " ", "en">>), glottocode |-> T("engl1234"),
      latitude |-> NaN, longitude |-> NaN],
     [isocodes |-> Str(<<" ", "eng", ",", ",", "eng", " ">>),
      glottocode |-> T("midl1234"), latitude |-> T("unknown"),
      longitude |-> None, macroarea |-> T("Eurasia")],
     [isocodes |-> None, glottocode |-> T("null1234"), latitude |-> Num(1),
      longitude |-> Num(2)],
     [isocodes |-> NaN, glottocode |-> T("nann1234")],
     [glottocode |-> T("miss1234"), latitude |-> Num(3)]}

DialectRows ==
    <<[id |-> T("stan1293"), level |-> T("language"), family_id |-> T("indo1319"),
       name |-> T("English")],
      [id |-> T("indo1319"), level |-> T("family"), family_id |-> NaN,
       name |-> T("Indo-European")]>>

\* primary records for the reported rates: a code in the index, a code not in
\* it, no code
RatePGRecords == {[ROG3 |-> T("USA")], [ROG3 |-> T("ZZZ")], [PeopleID3 |-> Num(1)]}
RateLanguages == {[ROL3 |-> T("eng")], [ROL3 |-> T("zzz")]}
RateCentroid ==
    [iso_a3 |-> T("USA"), latitude |-> Num(10), longitude |-> Num(20)]
RateGlotto ==
    [isocodes |-> T("eng"), glottocode |-> T("stan1293"), latitude |-> Num(53),
     longitude |-> Num(-1)]

\* rows of glottolog_languoid.csv
LanguoidRows ==
    {[id |-> T("abc1234"), level |-> T("language"), family_id |-> T("fam001"),
      name |-> T("English")],
     [id |-> T("abc1234"), level |-> T("family"), family_id |-> T("fam001"),
      name |-> T("Anglic")],
     [id |-> T("abc1234"), level |-> T("dialect"), family_id |-> T("fam999"),
      name |-> T("English")],
     [id |-> T("fam001"), level |-> T("family"), family_id |-> NaN,
      name |-> T("Indo-European")]}

\* people groups, countries and languages read by create_enriched_datasets.py
FullPGRecords ==
    {[ROG3 |-> T("USA"), ROL3 |-> T("eng"), LeastReached |-> T("Y")],
     [ROG3 |-> T("USA"), ROL3 |-> T("xyz"), LeastReached |-> T("N")],
     [ROG3 |-> T("ZZZ"), ROL3 |-> T("eng")],
     [ROG3 |-> None, ROL3 |-> EmptyStr, LeastReached |-> T("Y")],
     [ROG3 |-> T("USA"), country_data |-> T("own")]}

CountryRecords ==
    {[ROG3 |-> T("USA"), Ctry |-> T("United States"), Continent |-> T("North America")],
     [ROG3 |-> T("USA"), Ctry |-> T("USA"), CntPeoples |-> Num(0)],
     [Ctry |-> T("Unkeyed")]}

FullLangRecords ==
    {[ROL3 |-> T("eng"), Language |-> T("English"), latitude |-> Num(53),
      family_name |-> T("Indo-European"), family_id |-> T("fam001")],
     [ROL3 |-> T("eng"), Language |-> T("Englisch"), latitude |-> None]}

\* the state after the collections are loaded: every record is an object of
\* the heap, every collection a list of identities
Memory(p, pgs, langs, cents, glots, rows, ctrys, tots) ==
    /\ prog = p
    /\ error = "none"
    /\ heap = pgs \o langs \o cents \o glots \o ctrys \o tots
    /\ people_groups = Refs(0, Len(pgs))
    /\ languages = Refs(Len(pgs), Len(langs))
    /\ centroids = Refs(Len(pgs) + Len(langs), Len(cents))
    /\ glottolog = Refs(Len(pgs) + Len(langs) + Len(cents), Len(glots))
    /\ countries = Refs(Len(pgs) + Len(langs) + Len(cents) + Len(glots), Len(ctrys))
    /\ totals = Refs(Len(pgs) + Len(langs) + Len(cents) + Len(glots) + Len(ctrys),
                     Len(tots))
    /\ glottolog_languoid = rows
    /\ centroid_lookup = EmptyDict /\ glottolog_lookup = EmptyDict
    /\ family_lookup = EmptyDict /\ glottocode_to_family = EmptyDict
    /\ i = 1 /\ enriched = <<>>
    /\ matched_pg = 0 /\ unmatched_countries = {}
    /\ matched_lang = 0 /\ unmatched_iso_codes = {}
    /\ people_groups_enriched = <<>> /\ languages_enriched = <<>>
    /\ files = EmptyDict /\ stdout = <<>>
    /\ lookups = [countries |-> EmptyDict, languages |-> EmptyDict,
                  totals |-> EmptyDict]
    /\ enriched_records = <<>> /\ unreached = <<>>
    /\ compact_groups = <<>> /\ stats = EmptyDict
    /\ results = EmptyDict

\* main after its load step has returned the collections
Loaded(p, pgs, langs, cents, glots, rows, ctrys, tots) ==
    /\ Memory(p, pgs, langs, cents, glots, rows, ctrys, tots)
    /\ pc = IF p = "geo" THEN "build_lookup_tables" ELSE "create_lookups"

\* enrich_with_coordinates.py over varied people groups and centroids
InitPG ==
    \E pgs \in SeqsUpTo(PGRecords, MaxPrimary),
       cents \in SeqsUpTo(CentroidRecords, MaxReference) :
        Loaded("geo", pgs, <<[ROL3 |-> T("eng")]>>, cents, <<>>, <<>>, <<>>, <<>>)

\* enrich_with_coordinates.py over varied languages, glottolog entries and languoids
InitFamily ==
    \E langs \in FamilyLanguages,
       glots \in SeqsUpTo(GlottoRecords, MaxReference),
       rows \in SeqsUpTo(LanguoidRows, MaxReference) :
        Loaded("geo", <<[ROG3 |-> T("USA")]>>, langs, <<>>, glots, rows, <<>>, <<>>)

\* enrich_with_coordinates.py over varied languages and glottolog entries
InitDialect ==
    \E langs \in SeqsUpTo(DialectLanguages, MaxPrimary),
       glots \in SeqsUpTo(DialectRecords, MaxReference) :
        Loaded("geo", <<[ROG3 |-> T("USA")]>>, langs, <<>>, glots, DialectRows,
               <<>>, <<>>)

\* enrich_with_coordinates.py over primary collections of up to MaxReport
\* records and one-entry indices
InitReport ==
    \E pgs \in SeqsUpTo(RatePGRecords, MaxReport),
       langs \in SeqsUpTo(RateLanguages, MaxReport) :
        Loaded("geo", pgs, langs, <<RateCentroid>>, <<RateGlotto>>, <<>>, <<>>, <<>>)

\* create_enriched_datasets.py
InitFull ==
    \E pgs \in SeqsUpTo(FullPGRecords, MaxPrimary),
       ctrys \in SeqsUpTo(CountryRecords, MaxReference),
       langs \in SeqsUpTo(FullLangRecords, MaxReference) :
        Loaded("full", pgs, langs, <<>>, <<>>, <<>>, ctrys, <<>>)

Init == InitPG \/ InitFamily \/ InitDialect \/ InitFull

\* ------------------------------------------------------------------ loading
\* the files load_data opens, in order, and the files load_datasets opens
GEO_FILES ==
    <<"joshua_project_full_dump.json", "joshua_project_languages.json",
      "joshua_project_countries.json", "country_centroids.json",
      "glottolog_coordinates.json", "glottolog_languoid.csv", "iso_639_3.json">>
FULL_FILES ==
    <<"joshua_project_full_dump.json", "joshua_project_countries.json",
      "joshua_project_languages_enriched_geo.json", "joshua_project_totals.json">>
\* what a file that cannot be loaded raises
LOAD_ERRORS == {"FileNotFoundError", "JSONDecodeError"}

\* main before its first statement: nothing loaded, built, enriched or written
Started(p) ==
    /\ Memory(p, <<>>, <<>>, <<>>, <<>>, <<>>, <<>>, <<>>)
    /\ pc = IF p = "geo" THEN "load_data" ELSE "load_datasets"

\* the collections a load step returns become main's variables
Return(p, pgs, langs, cents, glots, rows, ctrys, tots) ==
    /\ heap' = pgs \o langs \o cents \o glots \o ctrys \o tots
    /\ people_groups' = Refs(0, Len(pgs))
    /\ languages' = Refs(Len(pgs), Len(langs))
    /\ centroids' = Refs(Len(pgs) + Len(langs), Len(cents))
    /\ glottolog' = Refs(Len(pgs) + Len(langs) + Len(cents), Len(glots))
    /\ countries' = Refs(Len(pgs) + Len(langs) + Len(cents) + Len(glots), Len(ctrys))
    /\ totals' = Refs(Len(pgs) + Len(langs) + Len(cents) + Len(glots) + Len(ctrys),
                      Len(tots))
    /\ glottolog_languoid' = rows
    /\ pc' = IF p = "geo" THEN "build_lookup_tables" ELSE "create_lookups"
    /\ UNCHANGED <<prog, error, geo_state, i, enriched, files, stdout, full_state>>

\* where main goes when a load fails: enrich_with_coordinates.main's except
\* returns 1, create_enriched_datasets.main returns on `if not datasets`
after_load_failure_continue(p) ==
    IF p = "geo" THEN "build_lookup_tables" ELSE "create_lookups"
after_load_failure(p) == IF p = "geo" THEN "failed" ELSE "aborted"

\* load_data(): every file is opened in turn; the first that is missing or
\* unparsable raises out of load_data, otherwise all collections are returned
load_data ==
    /\ prog = "geo" /\ pc = "load_data"
    /\ \E bad \in (1..Len(GEO_FILES)) \cup {0}, e \in LOAD_ERRORS :
          IF bad # 0
          THEN /\ pc' = after_load_failure("geo")
               /\ error' = e
               /\ UNCHANGED <<prog, heap, inputs, geo_state, i, enriched, files, stdout,
                              full_state>>
          ELSE /\ e = "FileNotFoundError"
               /\ \E langs \in SeqsUpTo(DialectLanguages, MaxPrimary),
                     glots \in SeqsUpTo(DialectRecords, MaxReference) :
                      Return("geo", <<[ROG3 |-> T("USA")]>>, langs, <<>>, glots,
                             DialectRows, <<>>, <<>>)
    /\ UNCHANGED <<viz_state, fetch_state>>

\* load_datasets(): returns None at the first file that is missing or
\* unparsable, otherwise the four datasets
load_datasets ==
    /\ prog = "full" /\ pc = "load_datasets"
    /\ \E bad \in (1..Len(FULL_FILES)) \cup {0}, e \in LOAD_ERRORS :
          IF bad # 0
          THEN /\ pc' = after_load_failure("full")
               /\ error' = e
               /\ UNCHANGED <<prog, heap, inputs, geo_state, i, enriched, files, stdout,
                              full_state>>
          ELSE /\ e = "FileNotFoundError"
               /\ \E pgs \in SeqsUpTo(FullPGRecords, MaxPrimary),
                     ctrys \in SeqsUpTo(CountryRecords, MaxReference),
                     langs \in SeqsUpTo(FullLangRecords, MaxReference) :
                      Return("full", pgs, langs, <<>>, <<>>, <<>>, ctrys, <<>>)
    /\ UNCHANGED <<viz_state, fetch_state>>

InitLoad == Started("geo") \/ Started("full")

NextGeo ==
    \/ build_lookup_tables
    \/ enrich_people_groups_iter
    \/ enrich_people_groups_return
    \/ enrich_languages_iter
    \/ enrich_languages_return
    \/ save_enriched_data

NextFull ==
    \/ create_lookups
    \/ create_full_enriched_iter
    \/ create_full_enriched_return
    \/ create_unreached_subset
    \/ save_outputs

Next == NextGeo \/ NextFull

NextLoad == load_data \/ load_datasets \/ NextGeo \/ NextFull

SpecPG == InitPG /\ [][NextGeo]_vars
SpecFamily == InitFamily /\ [][NextGeo]_vars
SpecDialect == InitDialect /\ [][NextGeo]_vars
SpecReport == InitReport /\ [][NextGeo]_vars
SpecFull == InitFull /\ [][NextFull]_vars
Spec == Init /\ [][Next]_vars
SpecLoad == InitLoad /\ [][NextLoad]_vars

\* ------------------------------------------------ prepare_souls_viz_data.py
\* the integers int() and float() can read from a string of the model
NumberTexts == (0 - 9)..99

\* int(value) / float(value) succeeds: a number, or a string holding one number
\* (blanks around it allowed); None, NaN, other text and dicts raise
reads_as_number(value) ==
    \/ value.t = "num"
    \/ value.t = "str" /\ \E n \in NumberTexts : strip(value.s) = <<ToString(n)>>

number_read(value) ==
    IF value.t = "num" THEN value.n
    ELSE CHOOSE n \in NumberTexts : strip(value.s) = <<ToString(n)>>

\* safe_float(value, default); the numbers of the model are whole
safe_float(value, default) ==
    IF value # None /\ reads_as_number(value) THEN Num(number_read(value)) ELSE default

\* safe_int(value, default)
safe_int(value, default) ==
    IF value # None /\ reads_as_number(value) THEN Num(number_read(value)) ELSE default

\* a or b
py_or(a, b) == IF truthy(a) THEN a ELSE b

\* compact_group(group); round(x, 1) leaves a whole number as it is
compact_group(group) ==
    LET its_country == dict_get(group, "country_data", None)
        its_language == dict_get(group, "language_data", None)
        compact ==
            [n |-> dict_get(group, "PeopNameInCountry", T("Unknown")),
             p |-> safe_int(dict_get(group, "Population", Num(0)), Num(0)),
             s |-> safe_int(dict_get(group, "JPScale", Num(0)), Num(0)),
             e |-> safe_float(dict_get(group, "PercentEvangelical", Num(0)), Num(0)),
             r |-> dict_get(group, "PrimaryReligion", T("Unknown")),
             l |-> dict_get(group, "PrimaryLanguageName", T("Unknown")),
             lc |-> dict_get(group, "ROL3", EmptyStr),
             c |-> IF truthy(its_country)
                   THEN dict_get(its_country.d, "name", T("Unknown"))
                   ELSE dict_get(group, "Ctry", T("Unknown")),
             cc |-> dict_get(group, "ROG3", EmptyStr),
             cn |-> dict_get(group, "Continent", EmptyStr),
             rg |-> dict_get(group, "RegionName", EmptyStr),
             ab |-> dict_get(group, "AffinityBloc", EmptyStr),
             pc |-> dict_get(group, "PeopleCluster", EmptyStr),
             bs |-> safe_int(dict_get(group, "BibleStatus", Num(0)), Num(0)),
             jf |-> IF truthy(its_language)
                    THEN dict_get(its_language.d, "has_jesus_film", T("N"))
                    ELSE T("N"),
             lr |-> dict_get(group, "LeastReached", T("N"))]
        lat == py_or(dict_get(group, "Latitude", None),
                     dict_get(group, "PrimaryLanguageLatitude", None))
        lon == py_or(dict_get(group, "Longitude", None),
                     dict_get(group, "PrimaryLanguageLongitude", None))
        lat_val == safe_float(lat, None)
        lon_val == safe_float(lon, None)
    IN IF /\ truthy(lat) /\ truthy(lon)
          /\ lat_val # None /\ lon_val # None
          /\ lat_val # Num(0) /\ lon_val # Num(0)
       THEN dict_set(compact, "ll", <<lat_val, lon_val>>)
       ELSE compact

\* sum(g['p'] for g in groups[:n])
RECURSIVE population_sum(_, _)
population_sum(groups, n) ==
    IF n = 0 THEN 0 ELSE population_sum(groups, n - 1) + groups[n].p.n

\* [g for g in groups if g['lr'] == 'Y']
unreached_groups(groups) == SelectSeq(groups, LAMBDA g : g.lr = T("Y"))

\* {str(i): 0 for i in range(lo, hi + 1)}
buckets(lo, hi) == [k \in {T(ToString(n)) : n \in lo..hi} |-> 0]

\* the stats dict generate_stats starts its loop with
stats_start(groups) ==
    [total_groups |-> Len(groups),
     total_population |-> population_sum(groups, Len(groups)),
     unreached_count |-> Len(unreached_groups(groups)),
     unreached_population |->
         population_sum(unreached_groups(groups), Len(unreached_groups(groups))),
     by_religion |-> EmptyDict,
     by_continent |-> EmptyDict,
     by_affinity_bloc |-> EmptyDict,
     by_jp_scale |-> buckets(1, 5),
     by_bible_status |-> buckets(0, 5)]

\* the by_religion entry of g['r'] after g has been counted
by_religion_add_all_unreached(table, g) ==
    LET old == dict_get(table, g.r, [count |-> 0, population |-> 0, unreached |-> 0])
    IN dict_set(table, g.r,
                [count |-> old.count + 1,
                 population |-> old.population + g.p.n,
                 unreached |-> old.unreached + g.p.n])
by_religion_add(table, g) ==
    LET old == dict_get(table, g.r, [count |-> 0, population |-> 0, unreached |-> 0])
    IN dict_set(table, g.r,
                [count |-> old.count + 1,
                 population |-> old.population + g.p.n,
                 unreached |-> old.unreached + (IF g.lr = T("Y") THEN g.p.n ELSE 0)])

\* if key: the by_continent / by_affinity_bloc entry of key after g has been
\* counted
by_place_add(table, key, g) ==
    IF truthy(key)
    THEN LET old == dict_get(table, key, [count |-> 0, population |-> 0])
         IN dict_set(table, key, [count |-> old.count + 1,
                                  population |-> old.population + g.p.n])
    ELSE table

\* table[str(value)] += 1, which raises KeyError when str(value) is no key
bucket_raises(table, value) == Str(py_str(value)) \notin DOMAIN table
bucket_add(table, value) == [table EXCEPT ![Str(py_str(value))] = @ + 1]

\* main: for i, group in enumerate(enriched):
\*           compact_groups.append(compact_group(group))
\* (people_groups holds main's `enriched`, the list load_enriched_data returned)
convert_iter ==
    /\ prog = "viz" /\ pc = "convert"
    /\ i <= Len(people_groups)
    /\ compact_groups' = Append(compact_groups, compact_group(heap[people_groups[i]]))
    /\ i' = i + 1
    /\ UNCHANGED <<prog, pc, error, heap, inputs, geo_state, enriched, files, stdout,
                   full_state, stats, fetch_state>>

\* generate_stats(compact_groups): the totals and the empty tables
generate_stats_call ==
    /\ prog = "viz" /\ pc = "convert"
    /\ i > Len(people_groups)
    /\ stats' = stats_start(compact_groups)
    /\ i' = 1
    /\ pc' = "generate_stats"
    /\ UNCHANGED <<prog, error, heap, inputs, geo_state, enriched, files, stdout,
                   full_state, compact_groups, fetch_state>>

\* generate_stats: one turn of `for g in groups`
generate_stats_iter ==
    /\ prog = "viz" /\ pc = "generate_stats"
    /\ i <= Len(compact_groups)
    /\ LET g == compact_groups[i]
           placed == [stats EXCEPT
                         !.by_religion = by_religion_add(@, g),
                         !.by_continent = by_place_add(@, g.cn, g),
                         !.by_affinity_bloc = by_place_add(@, g.ab, g)]
           scaled == IF truthy(g.s)
                     THEN [placed EXCEPT !.by_jp_scale = bucket_add(@, g.s)]
                     ELSE placed
       IN IF truthy(g.s) /\ bucket_raises(placed.by_jp_scale, g.s)
          THEN /\ stats' = placed
               /\ error' = "KeyError"
               /\ pc' = "crashed"
               /\ UNCHANGED i
          ELSE IF g.bs # None /\ bucket_raises(scaled.by_bible_status, g.bs)
          THEN /\ stats' = scaled
               /\ error' = "KeyError"
               /\ pc' = "crashed"
               /\ UNCHANGED i
          ELSE /\ stats' = IF g.bs # None
                           THEN [scaled EXCEPT !.by_bible_status = bucket_add(@, g.bs)]
                           ELSE scaled
               /\ i' = i + 1
               /\ UNCHANGED <<pc, error>>
    /\ UNCHANGED <<prog, heap, inputs, geo_state, enriched, files, stdout, full_state,
                   compact_groups, fetch_state>>

\* generate_stats: return stats
generate_stats_return ==
    /\ prog = "viz" /\ pc = "generate_stats"
    /\ i > Len(compact_groups)
    /\ pc' = "save"
    /\ UNCHANGED <<prog, error, heap, inputs, geo_state, i, enriched, files, stdout,
                   full_state, viz_state, fetch_state>>

\* main: json.dump(output, f)
save_viz_data ==
    /\ prog = "viz" /\ pc = "save"
    /\ files' = [souls_enhanced_viz_data |->
                     [groups |-> compact_groups, stats |-> stats]]
    /\ pc' = "done"
    /\ UNCHANGED <<prog, error, heap, inputs, geo_state, i, enriched, stdout,
                   full_state, viz_state, fetch_state>>

\* enriched records as create_enriched_datasets writes them, and records whose
\* numeric fields hold other values JSON allows
VizRecords ==
    {[PeopNameInCountry |-> T("Arab"), Population |-> Num(100), JPScale |-> Num(1),
      BibleStatus |-> Num(5), PrimaryReligion |-> T("Islam"),
      Continent |-> T("Asia"), AffinityBloc |-> T("ArabWorld"),
      LeastReached |-> T("Y"), Latitude |-> Num(10), Longitude |-> Num(20),
      country_data |-> Nested([name |-> T("Yemen")])],
     [Population |-> Num(50), JPScale |-> Num(5), BibleStatus |-> Num(0),
      PrimaryReligion |-> T("Islam"), Continent |-> T("Africa"),
      LeastReached |-> T("N"),
      language_data |-> Nested([has_jesus_film |-> T("Y")])],
     [Population |-> T("7"), JPScale |-> T("3"), PrimaryReligion |-> T("Hinduism"),
      Continent |-> EmptyStr, AffinityBloc |-> T("ArabWorld"),
      LeastReached |-> T("Y"), Ctry |-> T("India")],
     [Population |-> None, JPScale |-> None, BibleStatus |-> None,
      PrimaryReligion |-> None, Continent |-> None, LeastReached |-> None],
     [Population |-> Num(3), JPScale |-> Num(6), PrimaryReligion |-> T("Islam"),
      LeastReached |-> T("Y")],
     [Population |-> Num(4), BibleStatus |-> Num(6), Continent |-> T("Asia")],
     EmptyDict}

InitViz ==
    /\ \E pgs \in SeqsUpTo(VizRecords, MaxPrimary) :
           Memory("viz", pgs, <<>>, <<>>, <<>>, <<>>, <<>>, <<>>)
    /\ pc = "convert"

NextViz ==
    \/ convert_iter
    \/ generate_stats_call
    \/ generate_stats_iter
    \/ generate_stats_return
    \/ save_viz_data

SpecViz == InitViz /\ [][NextViz]_vars

\* --------------------------------------------------- fetch_all_datasets.py
DATASETS ==
    <<[name |-> "countries", endpoint |-> "countries.json",
       output_file |-> "joshua_project_countries.json", expected_records |-> 238,
       description |-> "Country-level statistics and demographics"],
      [name |-> "languages", endpoint |-> "languages.json",
       output_file |-> "joshua_project_languages.json", expected_records |-> 7134,
       description |-> "Language details and translation status"],
      [name |-> "totals", endpoint |-> "totals.json",
       output_file |-> "joshua_project_totals.json", expected_records |-> 38,
       description |-> "Global summary statistics"]>>

\* a list value
List(items) == [t |-> "list", items |-> items]

\* the except clauses of fetch_dataset, each of which returns None
FETCH_ERRORS ==
    {[t |-> "raised", e |-> e] :
        e \in {"Timeout", "RequestException", "JSONDecodeError", "Exception"}}

\* what response.json() can hold: a list of up to MaxPrimary records
Responses == {List([j \in 1..n |-> EmptyDict]) : n \in 0..MaxPrimary}

\* the file a failed save leaves behind: none when open() raised, a cut one
\* when json.dump raised
SAVE_OUTCOMES == {"saved", "not opened", "cut"}

\* datetime.now().strftime("%Y-%m-%d")
today == T("today")

\* fetch_dataset(...): what it prints and what it returns
fetch_log(name, outcome) ==
    <<[event |-> "fetching", dataset |-> name, count |-> 0],
      IF outcome \in FETCH_ERRORS
      THEN [event |-> "fetch error", dataset |-> name, count |-> 0]
      ELSE [event |-> "downloaded", dataset |-> name, count |-> Len(outcome.items)]>>
fetch_dataset(outcome) == IF outcome \in FETCH_ERRORS THEN None ELSE outcome

\* save_dataset(data, filepath, dataset_name): what it prints, the files after
\* it, and what it returns
save_log(name, outcome) ==
    <<[event |-> IF outcome = "saved" THEN "saved" ELSE "save error",
       dataset |-> name, count |-> 0]>>
save_files(fs, filepath, data, outcome) ==
    CASE outcome = "saved" -> dict_set(fs, filepath, data)
      [] outcome = "cut" -> dict_set(fs, filepath, [t |-> "cut"])
      [] OTHER -> fs
save_dataset(outcome) == outcome = "saved"

\* if data: (None and the empty list are falsy)
has_data(data) == data # None /\ data # List(<<>>)

\* the results entry of a dataset whose fetch returned data / returned nothing
fetched_result_always_success(data, success) ==
    [success |-> TRUE, records |-> Len(data.items), timestamp |-> today]
fetched_result(data, success) ==
    [success |-> success, records |-> Len(data.items), timestamp |-> today]
failed_result == [success |-> FALSE, records |-> 0, timestamp |-> None]

\* main: one turn of `for dataset_name, config in DATASETS.items()`
fetch_iter ==
    /\ prog = "fetch" /\ pc = "fetch"
    /\ i <= Len(DATASETS)
    /\ \E response \in FETCH_ERRORS \cup Responses, outcome \in SAVE_OUTCOMES :
          LET config == DATASETS[i]
              data == fetch_dataset(response)
          IN IF has_data(data)
             THEN /\ stdout' = stdout \o fetch_log(config.name, response)
                                      \o save_log(config.name, outcome)
                  /\ files' = save_files(files, config.output_file, data, outcome)
                  /\ results' = dict_set(results, config.name,
                                         fetched_result(data, save_dataset(outcome)))
             ELSE /\ outcome = "saved"
                  /\ stdout' = stdout \o fetch_log(config.name, response)
                  /\ results' = dict_set(results, config.name, failed_result)
                  /\ UNCHANGED files
    /\ i' = i + 1
    /\ UNCHANGED <<prog, pc, error, heap, inputs, geo_state, enriched, full_state,
                   viz_state>>

\* sum(1 for r in results.values() if r["success"])
success_count(res) == Cardinality({name \in DOMAIN res : res[name].success})

\* main after the loop: the summary, then `if success_count > 0`
fetch_summary ==
    /\ prog = "fetch" /\ pc = "fetch"
    /\ i > Len(DATASETS)
    /\ stdout' = Append(stdout, [event |-> "summary", dataset |-> "",
                                 count |-> success_count(results)])
    /\ pc' = IF success_count(results) > 0 THEN "create_metadata" ELSE "done"
    /\ UNCHANGED <<prog, error, heap, inputs, geo_state, i, enriched, files,
                   full_state, viz_state, fetch_state>>

\* the metadata entry of a dataset of `results`
metadata_entry(config, info) ==
    [file |-> config.output_file, records |-> info.records,
     fetched |-> info.timestamp, endpoint |-> config.endpoint,
     description |-> config.description]

\* metadata after `for dataset_name, info in results.items(): if info["success"]`
metadata_of(res, people_groups_entry) ==
    [name \in {DATASETS[j].name : j \in {k \in DOMAIN DATASETS :
                                            /\ DATASETS[k].name \in DOMAIN res
                                            /\ res[DATASETS[k].name].success}}
            \cup DOMAIN people_groups_entry |->
        IF name \in DOMAIN people_groups_entry
        THEN people_groups_entry[name]
        ELSE LET k == CHOOSE k \in DOMAIN DATASETS : DATASETS[k].name = name
             IN metadata_entry(DATASETS[k], res[name])]

\* create_metadata(results): the people_groups entry is added when the full
\* dump is there and parses; the file is written unless the write raises
create_metadata ==
    /\ prog = "fetch" /\ pc = "create_metadata"
    /\ \E dump \in {None} \cup {Num(n) : n \in 0..MaxPrimary}, written \in BOOLEAN :
          LET entry == IF dump = None THEN EmptyDict
                       ELSE [x \in {"people_groups"} |->
                                [file |-> "joshua_project_full_dump.json",
                                 records |-> dump.n]]
          IN files' = IF written
                      THEN dict_set(files, "dataset_metadata.json",
                                    metadata_of(results, entry))
                      ELSE files
    /\ pc' = "done"
    /\ UNCHANGED <<prog, error, heap, inputs, geo_state, i, enriched, stdout,
                   full_state, viz_state, fetch_state>>

InitFetch ==
    /\ Memory("fetch", <<>>, <<>>, <<>>, <<>>, <<>>, <<>>, <<>>)
    /\ pc = "fetch"

NextFetch ==
    \/ fetch_iter
    \/ fetch_summary
    \/ create_metadata

SpecFetch == InitFetch /\ [][NextFetch]_vars


\* ------------------------------------------------------------------ claims
\* the language records enriched so far, and the pass's view of record j
LangPass == prog = "geo" /\ pc \in {"enrich_languages", "save_enriched_data", "done"}
LangList ==
    IF ~LangPass THEN <<>>
    ELSE IF pc = "enrich_languages" THEN enriched
    ELSE languages_enriched
LangDone == DOMAIN LangList
LangIn(j) == heap[languages[j]]
LangOut(j) == heap[LangList[j]]
LangCode(j) == dict_get(LangIn(j), "ROL3", EmptyStr)
LangMatched(j) == truthy(LangCode(j)) /\ LangCode(j) \in DOMAIN glottolog_lookup
\* the matched candidate of record j and its glottocode
Candidate(j) == heap[glottolog_lookup[LangCode(j)][1]]
CandidateGlottocode(j) == dict_get(Candidate(j), "glottocode", EmptyStr)
\* tier 1 applies: a recorded parent that resolves in the family-name map
Tier1(g) == g \in DOMAIN glottocode_to_family
            /\ glottocode_to_family[g] \in DOMAIN family_lookup
\* a recorded parent that does not resolve
BrokenLink(g) == g \in DOMAIN glottocode_to_family
                 /\ glottocode_to_family[g] \notin DOMAIN family_lookup
Tier2(g) == g \in DOMAIN family_lookup

\* C1: a matched candidate whose glottocode has a recorded parent that is a key
\* of family_lookup gets the parent's name and the parent id, also when the
\* glottocode is itself a key of family_lookup
C1_ParentWins ==
    \A j \in LangDone :
        (LangMatched(j) /\ Tier1(CandidateGlottocode(j))) =>
            /\ LangOut(j)["family_name"] =
                   family_lookup[glottocode_to_family[CandidateGlottocode(j)]]
            /\ LangOut(j)["family_id"] = glottocode_to_family[CandidateGlottocode(j)]

C1_Witness ==
    \E j \in LangDone :
        /\ LangMatched(j)
        /\ Tier1(CandidateGlottocode(j))
        /\ Tier2(CandidateGlottocode(j))
        /\ family_lookup[CandidateGlottocode(j)] # LangOut(j)["family_name"]

\* C2: a broken parent link falls through to tier 2 and then to tier 3, and no
\* enriched language record has a non-empty family_id with an empty family_name
C2_BrokenLinkFallsThrough ==
    \A j \in LangDone :
        /\ (LangMatched(j) /\ BrokenLink(CandidateGlottocode(j))) =>
              IF Tier2(CandidateGlottocode(j))
              THEN /\ LangOut(j)["family_name"] = family_lookup[CandidateGlottocode(j)]
                   /\ LangOut(j)["family_id"] = CandidateGlottocode(j)
              ELSE /\ LangOut(j)["family_name"] = ISOLATE
                   /\ LangOut(j)["family_id"] = EmptyStr
        /\ ~(/\ truthy(LangOut(j)["family_id"])
             /\ LangOut(j)["family_name"] = EmptyStr)

\* C3: a matched candidate whose glottocode has no recorded parent but is a key
\* of family_lookup gets its own name and its own glottocode as family_id
C3_OwnEntry ==
    \A j \in LangDone :
        (/\ LangMatched(j)
         /\ CandidateGlottocode(j) \notin DOMAIN glottocode_to_family
         /\ Tier2(CandidateGlottocode(j))) =>
            /\ LangOut(j)["family_name"] = family_lookup[CandidateGlottocode(j)]
            /\ LangOut(j)["family_id"] = CandidateGlottocode(j)

C3_Witness ==
    \E j \in LangDone :
        /\ LangMatched(j)
        /\ CandidateGlottocode(j) \notin DOMAIN glottocode_to_family
        /\ Tier2(CandidateGlottocode(j))

\* C4: a matched candidate whose glottocode resolves in neither tier 1 nor
\* tier 2 gets family_id '' and family_name 'Isolate' exactly when the
\* glottocode is non-empty, '' when it is empty or absent
C4_IsolateOrUnknown ==
    \A j \in LangDone :
        (/\ LangMatched(j)
         /\ ~Tier1(CandidateGlottocode(j))
         /\ ~Tier2(CandidateGlottocode(j))) =>
            /\ LangOut(j)["family_id"] = EmptyStr
            /\ LangOut(j)["family_name"] =
                   IF truthy(CandidateGlottocode(j)) THEN ISOLATE ELSE EmptyStr


\* the people-group records enriched so far by enrich_people_groups
PGList ==
    IF prog # "geo" THEN <<>>
    ELSE IF pc = "enrich_people_groups" THEN enriched
    ELSE people_groups_enriched
PGDone == DOMAIN PGList
PGIn(j) == heap[people_groups[j]]
PGOut(j) == heap[PGList[j]]
PGCode(j) == dict_get(PGIn(j), "ROG3", EmptyStr)
PGHit(j) == PGCode(j) \in DOMAIN centroid_lookup
\* the reference record currently stored under the record's country code
PGRef(j) == heap[centroid_lookup[PGCode(j)]]
\* the reference field each added field is taken from
PGSourceField ==
    [country_latitude |-> "latitude", country_longitude |-> "longitude",
     continent |-> "continent", region_un |-> "region_un"]

\* the people-group records enriched so far by create_full_enriched
FullDone == IF prog = "full" THEN DOMAIN enriched_records ELSE {}
FullIn(j) == heap[people_groups[j]]
FullOut(j) == heap[enriched_records[j]]

\* C5: every field present in a primary record has the same value in the
\* record enriched from it, in each of the three passes
C5_OriginalFieldsKept ==
    /\ \A j \in PGDone : \A f \in DOMAIN PGIn(j) : PGOut(j)[f] = PGIn(j)[f]
    /\ \A j \in LangDone : \A f \in DOMAIN LangIn(j) : LangOut(j)[f] = LangIn(j)[f]
    /\ \A j \in FullDone : \A f \in DOMAIN FullIn(j) : FullOut(j)[f] = FullIn(j)[f]

\* C6: a record whose ROG3 is absent, empty or no key of centroid_lookup is
\* returned with its own fields plus exactly the five added fields, all null
C6_MissAllNull ==
    \A j \in PGDone :
        (\/ "ROG3" \notin DOMAIN PGIn(j)
         \/ PGIn(j)["ROG3"] \in {EmptyStr, None}
         \/ PGIn(j)["ROG3"] \notin DOMAIN centroid_lookup) =>
            /\ DOMAIN PGOut(j) = DOMAIN PGIn(j) \cup PG_NEW_FIELDS
            /\ \A f \in PG_NEW_FIELDS : PGOut(j)[f] = None
            /\ \A f \in DOMAIN PGIn(j) \ PG_NEW_FIELDS : PGOut(j)[f] = PGIn(j)[f]

C6_Witness ==
    /\ prog = "geo" /\ pc = "done"
    /\ centroid_lookup # EmptyDict
    /\ \E j \in PGDone : truthy(PGCode(j)) /\ ~PGHit(j)
    /\ \E j \in PGDone : "ROG3" \notin DOMAIN PGIn(j) \/ PGIn(j)["ROG3"] = EmptyStr

\* C7: on a hit each added field is non-null exactly where the matched
\* reference record has a non-null value in the corresponding field, null
\* where that value is null or the field is absent, and processing never fails
C7_HitFieldsFollowReference ==
    /\ error # "KeyError"
    /\ \A j \in PGDone :
           PGHit(j) =>
               \A f \in DOMAIN PGSourceField :
                   (PGOut(j)[f] # None) <=>
                       (/\ PGSourceField[f] \in DOMAIN PGRef(j)
                        /\ PGRef(j)[PGSourceField[f]] # None)

\* C8: on a hit the added fields carry the values the reference record stored
\* under the code has for them and coordinate_source is the Natural Earth tag;
\* coordinate_source is non-null if and only if the record was a hit
C8_HitValues ==
    \A j \in PGDone :
        /\ PGHit(j) =>
              /\ \A f \in DOMAIN PGSourceField :
                     PGSourceField[f] \in DOMAIN PGRef(j) =>
                         PGOut(j)[f] = PGRef(j)[PGSourceField[f]]
              /\ PGOut(j)["coordinate_source"] = NATURAL_EARTH
        /\ (PGOut(j)["coordinate_source"] # None) <=> PGHit(j)

C8_Witness ==
    /\ prog = "geo" /\ pc = "done"
    /\ \E j \in PGDone :
           /\ PGHit(j)
           /\ PGOut(j)["country_latitude"] # PGOut(j)["country_longitude"]
           /\ PGOut(j)["continent"] = T("North America")
    /\ \E j \in PGDone : ~PGHit(j)


\* the passes that have returned their collection
PGReturned == prog = "geo" /\ pc \in {"enrich_languages", "save_enriched_data", "done"}
LangReturned == prog = "geo" /\ pc \in {"save_enriched_data", "done"}
FullReturned == prog = "full" /\ pc \in {"create_unreached_subset", "save_outputs", "done"}

\* C9: each pass returns as many records as the primary collection has, and
\* the record at position j is the enrichment of the primary record at j,
\* matched or not
C9_SameCountSameOrder ==
    /\ PGReturned => Len(people_groups_enriched) = Len(people_groups)
    /\ LangReturned => Len(languages_enriched) = Len(languages)
    /\ FullReturned => Len(enriched_records) = Len(people_groups)
    /\ \A j \in PGDone :
           PGOut(j) = dict_update(PGIn(j), IF PGHit(j) THEN pg_hit_fields(PGRef(j))
                                           ELSE pg_miss_fields)
    /\ \A j \in LangDone :
           LangOut(j) =
               dict_update(LangIn(j),
                           IF LangMatched(j)
                           THEN lang_hit_fields(Candidate(j),
                                                glottolog_lookup[LangCode(j)],
                                                family_lookup, glottocode_to_family)
                           ELSE lang_miss_fields)
    /\ \A j \in FullDone :
           FullOut(j) = dict_update(FullIn(j), full_fields(heap, FullIn(j), lookups))

C9_Witness ==
    /\ PGReturned
    /\ Len(people_groups) = MaxPrimary
    /\ PGHit(1) /\ ~PGHit(Len(people_groups))
    /\ PGIn(1) # PGIn(Len(people_groups))

\* the records of the primary collections
PrimaryRefs ==
    {people_groups[j] : j \in DOMAIN people_groups}
        \cup (IF prog = "geo" THEN {languages[j] : j \in DOMAIN languages} ELSE {})

\* C10: no step of a pass changes a record of its input collection, nor the
\* collection itself
C10_InputsNeverMutated ==
    [][/\ people_groups' = people_groups
       /\ languages' = languages
       /\ \A r \in PrimaryRefs : heap'[r] = heap[r]]_vars

C10_Witness ==
    /\ PGReturned
    /\ \E j \in PGDone :
           /\ PGHit(j)
           /\ DOMAIN PGIn(j) \cap PG_NEW_FIELDS = {}
           /\ PGOut(j)["coordinate_source"] = NATURAL_EARTH

\* the lookup tables of enrich_with_coordinates.py / create_enriched_datasets.py
\* have been built
GeoBuilt ==
    prog = "geo" /\ pc \notin {"load_data", "build_lookup_tables"}
    /\ error \notin LOAD_ERRORS
FullBuilt ==
    prog = "full" /\ pc \notin {"load_datasets", "create_lookups"}
    /\ error \notin LOAD_ERRORS \cup {"KeyError"}
\* the keys centroid j is stored under
CentroidKeys(j) ==
    {v \in {dict_get(heap[centroids[j]], "iso_a2", None),
            dict_get(heap[centroids[j]], "iso_a3", None)} : truthy(v)}
\* the last position of a non-empty set of positions
Last(S) == CHOOSE j \in S : \A m \in S : m <= j

\* C11: a single-valued index holds, under every key, the last record in
\* collection order that produces the key: the centroid index through iso_a2
\* or iso_a3, the country and language lookups through ROG3 and ROL3
C11_LastWriteWins ==
    /\ GeoBuilt =>
         \A j \in DOMAIN centroids : \A k \in CentroidKeys(j) :
             /\ k \in DOMAIN centroid_lookup
             /\ centroid_lookup[k] =
                    centroids[Last({m \in DOMAIN centroids : k \in CentroidKeys(m)})]
    /\ FullBuilt =>
         /\ \A j \in DOMAIN countries :
                lookups.countries[heap[countries[j]]["ROG3"]] =
                    countries[Last({m \in DOMAIN countries :
                        heap[countries[m]]["ROG3"] = heap[countries[j]]["ROG3"]})]
         /\ \A j \in DOMAIN languages :
                lookups.languages[heap[languages[j]]["ROL3"]] =
                    languages[Last({m \in DOMAIN languages :
                        heap[languages[m]]["ROL3"] = heap[languages[j]]["ROL3"]})]

\* two centroids with different contents produce the same key and the index
\* holds the later one
C11_Witness ==
    /\ GeoBuilt
    /\ \E j1, j2 \in DOMAIN centroids : \E k \in CentroidKeys(j1) :
           /\ j1 < j2
           /\ k \in CentroidKeys(j2)
           /\ heap[centroids[j1]] # heap[centroids[j2]]
           /\ centroid_lookup[k] = centroids[j2]
           /\ heap[centroid_lookup[k]] # heap[centroids[j1]]

\* the codes glottolog entry j is filed under, in the order its isocodes text
\* lists them, read off the text token by token
IsCodeToken(tok) == tok \notin {",", " "}
CodeTokens(j) ==
    SelectSeq(py_str(dict_get(heap[glottolog[j]], "isocodes", EmptyStr)), IsCodeToken)
HasComma(j) ==
    \E m \in DOMAIN py_str(dict_get(heap[glottolog[j]], "isocodes", EmptyStr)) :
        py_str(dict_get(heap[glottolog[j]], "isocodes", EmptyStr))[m] = ","
ProducedCodes(j) ==
    IF CodeTokens(j) = <<"nan">> /\ ~HasComma(j) THEN <<>>
    ELSE [m \in DOMAIN CodeTokens(j) |-> T(CodeTokens(j)[m])]
Occurrences(j, k) ==
    Cardinality({m \in DOMAIN ProducedCodes(j) : ProducedCodes(j)[m] = k})
Produces(j, k) == Occurrences(j, k) > 0
\* the first n glottolog entries, each as often as it lists k
RECURSIVE ExpectedEntries(_, _)
ExpectedEntries(k, n) ==
    IF n = 0 THEN <<>>
    ELSE ExpectedEntries(k, n - 1) \o [m \in 1..Occurrences(n, k) |-> glottolog[n]]

\* C12: the list glottolog_lookup keeps under a key holds exactly the entries
\* that list the key, once per occurrence, in the order of the glottolog
\* collection, so its first element is the earliest entry that lists the key
C12_ListsInSourceOrder ==
    GeoBuilt =>
        /\ DOMAIN glottolog_lookup =
               UNION {{ProducedCodes(j)[m] : m \in DOMAIN ProducedCodes(j)} :
                         j \in DOMAIN glottolog}
        /\ \A k \in DOMAIN glottolog_lookup :
               /\ glottolog_lookup[k] = ExpectedEntries(k, Len(glottolog))
               /\ \E j \in DOMAIN glottolog :
                      /\ Produces(j, k)
                      /\ \A m \in 1..(j - 1) : ~Produces(m, k)
                      /\ glottolog_lookup[k][1] = glottolog[j]

\* a key listed by two different entries, kept in collection order
C12_Witness ==
    /\ GeoBuilt
    /\ \E k \in DOMAIN glottolog_lookup : \E j1, j2 \in DOMAIN glottolog :
           /\ j1 < j2
           /\ Produces(j1, k) /\ Produces(j2, k)
           /\ heap[glottolog[j1]] # heap[glottolog[j2]]
           /\ glottolog_lookup[k][1] = glottolog[j1]
           /\ glottolog_lookup[k][Len(glottolog_lookup[k])] = glottolog[j2]

\* the keys under which glottolog entry j is found in the index
FiledUnder(j) ==
    {k \in DOMAIN glottolog_lookup :
        \E m \in DOMAIN glottolog_lookup[k] : glottolog_lookup[k][m] = glottolog[j]}
\* a key that is a trimmed, non-empty, comma-free text
CleanKey(k) ==
    /\ k.t = "str" /\ k.s # <<>>
    /\ \A m \in DOMAIN k.s : k.s[m] # ","
    /\ Head(k.s) # " " /\ k.s[Len(k.s)] # " "

\* C13: an entry whose isocodes is a comma-separated list is filed under each
\* trimmed, non-empty part and under nothing else; no key of the index is the
\* unsplit text, an empty text or an untrimmed part
C13_CommaListsSplit ==
    GeoBuilt =>
        /\ \A k \in DOMAIN glottolog_lookup : CleanKey(k)
        /\ \A j \in DOMAIN glottolog :
               HasComma(j) =>
                   /\ FiledUnder(j) = {T(CodeTokens(j)[m]) : m \in DOMAIN CodeTokens(j)}
                   /\ dict_get(heap[glottolog[j]], "isocodes", EmptyStr)
                          \notin FiledUnder(j)

\* the entry listing 'eng, en' alone: both codes resolve to a one-element list
\* holding it
C13_Witness ==
    /\ GeoBuilt
    /\ \E j \in DOMAIN glottolog :
           /\ dict_get(heap[glottolog[j]], "isocodes", EmptyStr) =
                  Str(<<"eng", ",", " ", "en">>)
           /\ DOMAIN glottolog_lookup = {T("eng"), T("en")}
           /\ glottolog_lookup[T("eng")] = <<glottolog[j]>>
           /\ glottolog_lookup[T("en")] = <<glottolog[j]>>

\* a raw key value that is no key: absent, null, empty, whitespace only or
\* the text 'nan'
Absent == [t |-> "absent"]
NoKey(v) ==
    \/ v = Absent
    \/ v = None
    \/ v.t = "str" /\ (strip(v.s) = <<>> \/ strip(v.s) = <<"nan">>)
Field(ref, f) == dict_get(heap[ref], f, Absent)
\* the records a single-valued index holds
Held(index) == {index[k] : k \in DOMAIN index}
\* no index build has raised
IndexBuildsComplete == ~(prog = "full" /\ error = "KeyError")
\* centroid_lookup holds a centroid only under its usable codes
KeylessCentroidsUnfiled ==
    GeoBuilt =>
        \A j \in DOMAIN centroids : \A k \in DOMAIN centroid_lookup :
            centroid_lookup[k] = centroids[j] =>
                \E f \in {"iso_a2", "iso_a3"} :
                    ~NoKey(Field(centroids[j], f)) /\ Field(centroids[j], f) = k
\* glottolog_lookup holds no entry whose isocodes is no key
KeylessEntriesUnfiled ==
    GeoBuilt =>
        \A j \in DOMAIN glottolog :
            NoKey(Field(glottolog[j], "isocodes")) => FiledUnder(j) = {}
\* the lookups of create_lookups hold no record whose key field is no key
KeylessRecordsUnfiled ==
    FullBuilt =>
        /\ \A j \in DOMAIN countries :
               NoKey(Field(countries[j], "ROG3")) =>
                   countries[j] \notin Held(lookups.countries)
        /\ \A j \in DOMAIN languages :
               NoKey(Field(languages[j], "ROL3")) =>
                   languages[j] \notin Held(lookups.languages)
        /\ \A j \in DOMAIN totals :
               NoKey(Field(totals[j], "id")) => totals[j] \notin Held(lookups.totals)

\* C14: a reference record whose key field is absent, null, empty, whitespace
\* only or the text 'nan' gets no entry in any index (centroid, glottolog,
\* country, language, totals) and no index build raises
C14_KeylessRecordsSkipped ==
    /\ IndexBuildsComplete
    /\ KeylessCentroidsUnfiled
    /\ KeylessEntriesUnfiled
    /\ KeylessRecordsUnfiled

\* the candidate list of a matched language record, and a coordinate as
\* enrich_languages surfaces it
Candidates(j) == glottolog_lookup[LangCode(j)]
Surfaced(v) == IF pd_isna(v) THEN None ELSE v

\* C15: a language record whose ROL3 is a key of glottolog_lookup takes its
\* glottocode, coordinates and macroarea from the first entry of the list, and
\* its glottolog_match_count is the length of the whole list, at least 1
C15_FirstCandidateAndCount ==
    \A j \in LangDone :
        LangMatched(j) =>
            /\ LangOut(j)["glottocode"] = CandidateGlottocode(j)
            /\ LangOut(j)["latitude"] =
                   Surfaced(dict_get(Candidate(j), "latitude", None))
            /\ LangOut(j)["longitude"] =
                   Surfaced(dict_get(Candidate(j), "longitude", None))
            /\ LangOut(j)["macroarea"] = dict_get(Candidate(j), "macroarea", EmptyStr)
            /\ LangOut(j)["glottolog_match_count"] = Num(Len(Candidates(j)))
            /\ Len(Candidates(j)) >= 1

\* a matched record with two candidates that differ in glottocode and
\* latitude: the first one is surfaced, the count is 2 or more
C15_Witness ==
    \E j \in LangDone :
        /\ LangMatched(j)
        /\ Len(Candidates(j)) >= 2
        /\ dict_get(heap[Candidates(j)[Len(Candidates(j))]], "glottocode", EmptyStr)
               # CandidateGlottocode(j)
        /\ LangOut(j)["glottocode"] = CandidateGlottocode(j)
        /\ LangOut(j)["latitude"] = Num(53)
        /\ LangOut(j)["glottolog_match_count"].n >= 2

\* C16: the latitude and longitude of an enriched language record are each a
\* number or null; when the first candidate's value is absent, null, NaN or
\* not a number (a text), the enriched field is null
C16_MalformedCoordinatesNulled ==
    \A j \in LangDone : \A f \in {"latitude", "longitude"} :
        /\ LangOut(j)[f].t \in {"num", "None"}
        /\ (LangMatched(j) /\ dict_get(Candidate(j), f, None).t # "num") =>
               LangOut(j)[f] = None

\* the derived fields of a language record other than the count
LANG_NULLED_ON_MISS ==
    {"latitude", "longitude", "glottocode", "family_name", "family_id",
     "macroarea", "coordinate_source"}

\* C17: a language record whose ROL3 is absent, empty or not a key of
\* glottolog_lookup gets the seven derived fields null and
\* glottolog_match_count 0, and unmatched_iso_codes holds exactly the
\* non-empty codes of such records
C17_LanguageMiss ==
    /\ \A j \in LangDone :
           ~LangMatched(j) =>
               /\ \A f \in LANG_NULLED_ON_MISS : LangOut(j)[f] = None
               /\ LangOut(j)["glottolog_match_count"] = Num(0)
               /\ truthy(LangCode(j)) => LangCode(j) \in unmatched_iso_codes
    /\ LangPass =>
           unmatched_iso_codes =
               {LangCode(j) : j \in {m \in LangDone :
                                        ~LangMatched(m) /\ truthy(LangCode(m))}}

\* with a non-empty index: one missed record whose code is recorded and one
\* without a code, which records nothing
C17_Witness ==
    /\ glottolog_lookup # EmptyDict
    /\ \E j1, j2 \in LangDone :
           /\ ~LangMatched(j1) /\ truthy(LangCode(j1))
           /\ ~LangMatched(j2) /\ ~truthy(LangCode(j2))
           /\ unmatched_iso_codes = {LangCode(j1)}
           /\ LangOut(j1)["glottolog_match_count"] = Num(0)
           /\ LangOut(j2)["coordinate_source"] = None

\* the two lookups of enrich_people_group for record j
CountryCode(j) == dict_get(FullIn(j), "ROG3", None)
LanguageCode(j) == dict_get(FullIn(j), "ROL3", None)
CountryHit(j) == truthy(CountryCode(j)) /\ CountryCode(j) \in DOMAIN lookups.countries
LanguageHit(j) ==
    truthy(LanguageCode(j)) /\ LanguageCode(j) \in DOMAIN lookups.languages

\* C18: whether country_data is attached depends only on ROG3 and the country
\* lookup, whether language_data is attached only on ROL3 and the language
\* lookup; a hit attaches the group built from the matched record and a miss
\* leaves the field as the input had it, whatever the other lookup did
C18_LookupsIndependent ==
    \A j \in FullDone :
        /\ dict_get(FullOut(j), "country_data", Absent) =
               IF CountryHit(j)
               THEN country_data(heap[lookups.countries[CountryCode(j)]])
               ELSE dict_get(FullIn(j), "country_data", Absent)
        /\ dict_get(FullOut(j), "language_data", Absent) =
               IF LanguageHit(j)
               THEN language_data(heap[lookups.languages[LanguageCode(j)]])
               ELSE dict_get(FullIn(j), "language_data", Absent)

\* the four combinations of the two lookups
CountryOnly(j) ==
    /\ CountryHit(j) /\ ~LanguageHit(j)
    /\ "country_data" \in DOMAIN FullOut(j) /\ "language_data" \notin DOMAIN FullOut(j)
LanguageOnly(j) ==
    /\ ~CountryHit(j) /\ LanguageHit(j)
    /\ "country_data" \notin DOMAIN FullOut(j) /\ "language_data" \in DOMAIN FullOut(j)
BothAttached(j) ==
    /\ CountryHit(j) /\ LanguageHit(j)
    /\ "country_data" \in DOMAIN FullOut(j) /\ "language_data" \in DOMAIN FullOut(j)
NeitherAttached(j) ==
    /\ ~CountryHit(j) /\ ~LanguageHit(j)
    /\ "country_data" \notin DOMAIN FullOut(j) /\ "language_data" \notin DOMAIN FullOut(j)
C18_BothReached == \E j \in FullDone : BothAttached(j)
C18_NeitherReached ==
    /\ lookups.countries # EmptyDict /\ lookups.languages # EmptyDict
    /\ \E j \in FullDone : NeitherAttached(j)

\* one run with a record that gets country_data only and a record that gets
\* language_data only
C18_Witness ==
    \E j1, j2 \in FullDone : CountryOnly(j1) /\ LanguageOnly(j2)

\* C19: every record enrich_people_group produces carries both country_data
\* and language_data, a nested group on a match and an explicit null on a miss
C19_BothGroupsAlwaysPresent ==
    \A j \in FullDone :
        /\ {"country_data", "language_data"} \subseteq DOMAIN FullOut(j)
        /\ FullOut(j)["country_data"] =
               IF CountryHit(j)
               THEN country_data(heap[lookups.countries[CountryCode(j)]])
               ELSE None
        /\ FullOut(j)["language_data"] =
               IF LanguageHit(j)
               THEN language_data(heap[lookups.languages[LanguageCode(j)]])
               ELSE None

\* C20: for every primary collection, the empty one included, and every
\* index, enrich_people_groups and enrich_languages raise nothing: the run of
\* enrich_with_coordinates.py never ends in main's exception handler
C20_EnrichmentNeverRaises ==
    prog = "geo" => (error = "none" /\ pc # "failed")

\* a required collection could not be loaded
LoadFailed == error \in LOAD_ERRORS
\* no lookup built, no record enriched, nothing written
NothingProduced ==
    /\ centroid_lookup = EmptyDict /\ glottolog_lookup = EmptyDict
    /\ family_lookup = EmptyDict /\ glottocode_to_family = EmptyDict
    /\ lookups = [countries |-> EmptyDict, languages |-> EmptyDict,
                  totals |-> EmptyDict]
    /\ heap = <<>> /\ enriched = <<>>
    /\ people_groups_enriched = <<>> /\ languages_enriched = <<>>
    /\ enriched_records = <<>> /\ unreached = <<>>
    /\ files = EmptyDict
\* every primary record has been enriched
EnrichmentComplete ==
    IF prog = "geo"
    THEN /\ Len(people_groups_enriched) = Len(people_groups)
         /\ Len(languages_enriched) = Len(languages)
    ELSE Len(enriched_records) = Len(people_groups)

\* C21: when a required file is missing or unparsable the run stops with no
\* lookup built, no record enriched and no file written; a file is written
\* only in a run whose loads all succeeded, after the lookups were built and
\* every record was enriched
C21_LoadFailureStopsRun ==
    /\ LoadFailed => (pc \in {"failed", "aborted"} /\ NothingProduced)
    /\ files # EmptyDict =>
           /\ ~LoadFailed /\ error = "none" /\ pc = "done"
           /\ EnrichmentComplete

\* create_enriched_datasets.py stopped by an unparsable file
C21_Witness ==
    /\ prog = "full" /\ pc = "aborted" /\ error = "JSONDecodeError"
    /\ NothingProduced

\* the reports printed so far by the two passes
Reports(pass) == {n \in DOMAIN stdout : stdout[n].pass = pass}
\* the records of a primary collection whose code is a key of the index
PGInIndex ==
    {j \in DOMAIN people_groups :
        dict_get(heap[people_groups[j]], "ROG3", EmptyStr) \in DOMAIN centroid_lookup}
LangInIndex ==
    {j \in DOMAIN languages :
        dict_get(heap[languages[j]], "ROL3", EmptyStr) \in DOMAIN glottolog_lookup}
\* text is 100 * matched / total to one decimal place: the tenth nearest to it
OneDecimalPercent(text, matched, total) ==
    \E t \in 0..1000 :
        /\ text = <<ToString(t \div 10), ".", ToString(t % 10), "%">>
        /\ 2 * (1000 * matched - t * total) <= total
        /\ 2 * (t * total - 1000 * matched) <= total

\* C22: each pass over a non-empty collection reports 100 * matched / total
\* with one decimal place, matched being the number of records whose code is
\* in the index and total the number of records; 2 of 3 is reported as 66.7%
C22_ReportedMatchRate ==
    /\ \A n \in Reports("people_groups") :
           /\ stdout[n].total = Len(people_groups) /\ stdout[n].total > 0
           /\ stdout[n].matched = Cardinality(PGInIndex)
           /\ OneDecimalPercent(stdout[n].rate, Cardinality(PGInIndex),
                                 Len(people_groups))
    /\ \A n \in Reports("languages") :
           /\ stdout[n].total = Len(languages) /\ stdout[n].total > 0
           /\ stdout[n].matched = Cardinality(LangInIndex)
           /\ OneDecimalPercent(stdout[n].rate, Cardinality(LangInIndex),
                                 Len(languages))
    /\ \A n \in DOMAIN stdout :
           (stdout[n].total = 3 /\ stdout[n].matched = 2) =>
               stdout[n].rate = <<"66", ".", "7", "%">>

\* three people groups of which exactly two match: 66.7%
C22_Witness ==
    \E n \in Reports("people_groups") :
        /\ Len(people_groups) = 3 /\ Cardinality(PGInIndex) = 2
        /\ stdout[n].rate = <<"66", ".", "7", "%">>

\* the primary records a pass has processed so far
PGProcessed ==
    IF prog # "geo" THEN {}
    ELSE IF pc = "enrich_people_groups"
            \/ (pc = "failed" /\ people_groups_enriched = <<>>)
    THEN DOMAIN enriched
    ELSE DOMAIN people_groups_enriched
LangProcessed ==
    IF prog # "geo" THEN {}
    ELSE IF pc = "enrich_languages" THEN DOMAIN enriched
    ELSE DOMAIN languages_enriched
\* the codes present on a processed record and absent from the index
UnresolvedCountries ==
    {PGCode(j) : j \in {m \in PGProcessed : truthy(PGCode(m)) /\ ~PGHit(m)}}
UnresolvedIsoCodes ==
    {LangCode(j) : j \in {m \in LangProcessed :
                             truthy(LangCode(m)) /\ ~LangMatched(m)}}
DiagnosticsExact ==
    /\ unmatched_countries = UnresolvedCountries
    /\ unmatched_iso_codes = UnresolvedIsoCodes
    /\ unmatched_countries \cap DOMAIN centroid_lookup = {}
    /\ unmatched_iso_codes \cap DOMAIN glottolog_lookup = {}
    /\ \A c \in unmatched_countries \cup unmatched_iso_codes : truthy(c)
\* a step that records a code goes on to the next record
RecordingGoesOn ==
    (unmatched_countries' # unmatched_countries
         \/ unmatched_iso_codes' # unmatched_iso_codes) =>
        (pc' = pc /\ i' = i + 1 /\ error' = "none")

\* C23: the diagnostic sets hold exactly the distinct non-empty codes of the
\* processed primary records that are not keys of the index: never a key of
\* the index, a code once however many records carry it, nothing for a record
\* without a code; and the step that records a code goes on with the pass
C23_UnmatchedDiagnostics == []DiagnosticsExact /\ [][RecordingGoesOn]_vars

\* two people groups carry the same unresolved code and the set holds it once
C23_Witness ==
    \E j1, j2 \in PGProcessed :
        /\ j1 # j2 /\ PGCode(j1) = PGCode(j2)
        /\ truthy(PGCode(j1)) /\ ~PGHit(j1)
        /\ centroid_lookup # EmptyDict
        /\ unmatched_countries = {PGCode(j1)}

\* enrichment_metadata.json as save_enriched_data wrote it
Saved == prog = "geo" /\ pc = "done"
Metadata == files["enrichment_metadata"]

\* C24: in the saved metadata, with_coordinates of people groups is the
\* number of enriched records with a country match, which is the matched count
\* of enrich_people_groups, and with_coordinates of languages is the number of
\* records with a non-null latitude, whatever the coordinate values, 0 included
C24_CoverageCountsMatches ==
    Saved =>
        /\ Metadata.people_groups.with_coordinates =
               Cardinality({j \in PGDone : PGOut(j)["coordinate_source"] # None})
        /\ Metadata.people_groups.with_coordinates = matched_pg
        /\ Metadata.languages.with_coordinates =
               Cardinality({j \in LangDone : LangOut(j)["latitude"] # None})

\* the records of the enriched collection whose LeastReached is 'Y', in order
IsLeastReached(ref) == dict_get(heap[ref], "LeastReached", None) = T("Y")
LeastReachedOnly == SelectSeq(enriched_records, IsLeastReached)
\* create_unreached_subset has been called / has returned
SubsetCalled ==
    prog = "full" /\ (pc \in {"save_outputs", "done"} \/ error = "ZeroDivisionError")
SubsetReturned == prog = "full" /\ pc \in {"save_outputs", "done"}

\* C25: for every enriched collection create_unreached_subset and
\* filter_unreached return all and only the records whose LeastReached is 'Y',
\* the same records in their original order, without error
C25_UnreachedIsTheFilter ==
    /\ SubsetCalled => (SubsetReturned /\ unreached = LeastReachedOnly)
    /\ FullReturned => filter_unreached(heap, enriched_records) = LeastReachedOnly

\* the same for the collections on which create_unreached_subset returns
UnreachedOfReturnedIsTheFilter ==
    SubsetReturned =>
        /\ unreached = LeastReachedOnly
        /\ \A n \in DOMAIN unreached : \E j \in DOMAIN enriched_records :
               unreached[n] = enriched_records[j]

\* the reference records of the run
ReferenceRefs ==
    IF prog = "geo"
    THEN {centroids[j] : j \in DOMAIN centroids}
         \cup {glottolog[j] : j \in DOMAIN glottolog}
    ELSE {countries[j] : j \in DOMAIN countries}
         \cup {languages[j] : j \in DOMAIN languages}
         \cup {totals[j] : j \in DOMAIN totals}
\* a step taken after the build leaves every index and reference record alone
IndicesFrozen ==
    (GeoBuilt \/ FullBuilt) =>
        /\ centroid_lookup' = centroid_lookup
        /\ glottolog_lookup' = glottolog_lookup
        /\ family_lookup' = family_lookup
        /\ glottocode_to_family' = glottocode_to_family
        /\ lookups' = lookups
        /\ glottolog_languoid' = glottolog_languoid
        /\ \A r \in ReferenceRefs : heap'[r] = heap[r]

\* C26: once build_lookup_tables or create_lookups has returned, no later
\* step adds, removes or replaces an entry of an index or changes a reference
\* record
C26_IndicesFrozenAfterBuild == [][IndicesFrozen]_vars

\* a run has ended with a non-empty index, after both kinds of lookup: a hit
\* and a miss with a code that is not a key
C26_Witness ==
    /\ prog = "geo" /\ pc = "done"
    /\ glottolog_lookup # EmptyDict
    /\ \E j1, j2 \in LangDone :
           /\ LangMatched(j1)
           /\ ~LangMatched(j2) /\ truthy(LangCode(j2))
           /\ LangCode(j2) \notin DOMAIN glottolog_lookup

\* the three match markers of an enriched language record
CountedMatch(r) ==
    r["glottolog_match_count"].t = "num" /\ r["glottolog_match_count"].n >= 1
TaggedGlottolog(r) == r["coordinate_source"] = GLOTTOLOG
HasFamilyFields(r) ==
    /\ r["family_name"] # None /\ r["family_id"] # None
    /\ r["family_name"].t = "str" /\ r["family_id"].t = "str"

RECURSIVE TableSum(_, _)
TableSum(table, field) ==
    IF DOMAIN table = {} THEN 0
    ELSE LET k == CHOOSE x \in DOMAIN table : TRUE
         IN table[k][field] + TableSum([x \in DOMAIN table \ {k} |-> table[x]], field)

\* the sum of the counters of a bucket table
RECURSIVE BucketSum(_)
BucketSum(table) ==
    IF DOMAIN table = {} THEN 0
    ELSE LET k == CHOOSE x \in DOMAIN table : TRUE
         IN table[k] + BucketSum([x \in DOMAIN table \ {k} |-> table[x]])

StatsReturned == prog = "viz" /\ pc \in {"save", "done"}

HasBucket(g) ==
    /\ truthy(g.s) => Str(py_str(g.s)) \in DOMAIN buckets(1, 5)
    /\ Str(py_str(g.bs)) \in DOMAIN buckets(0, 5)

\* C28: every compact group built by compact_group has a JP scale 's' and a
\* Bible status 'bs' that generate_stats has a bucket for, so generate_stats
\* never raises, and once it has returned by_jp_scale counts every group with
\* a non-zero scale and by_bible_status counts every group.
C28_GenerateStatsTotal ==
    prog = "viz" =>
        /\ \A j \in DOMAIN compact_groups : HasBucket(compact_groups[j])
        /\ error = "none"
        /\ StatsReturned =>
               /\ BucketSum(stats.by_jp_scale)
                      = Len(SelectSeq(compact_groups, LAMBDA g : truthy(g.s)))
               /\ BucketSum(stats.by_bible_status) = Len(compact_groups)

\* the part of C28 that the code keeps: when generate_stats returns, every
\* group with a non-zero scale and every group has been counted
CountedWhenReturned ==
    StatsReturned =>
        /\ BucketSum(stats.by_jp_scale)
               = Len(SelectSeq(compact_groups, LAMBDA g : truthy(g.s)))
        /\ BucketSum(stats.by_bible_status) = Len(compact_groups)

\* C29: when generate_stats has returned, the by_religion counts, populations
\* and unreached populations add up to total_groups, total_population and
\* unreached_population, unreached_count is the number of groups with
\* 'lr' = 'Y', the by_continent and by_affinity_bloc counts add up to the
\* number of groups with a non-empty continent and affinity bloc, and the
\* list of groups is still the list compact_group built.
C29_StatsTotalsConsistent ==
    StatsReturned =>
        /\ stats.total_groups = Len(compact_groups)
        /\ TableSum(stats.by_religion, "count") = stats.total_groups
        /\ TableSum(stats.by_religion, "population") = stats.total_population
        /\ TableSum(stats.by_religion, "unreached") = stats.unreached_population
        /\ stats.unreached_count
               = Cardinality({j \in DOMAIN compact_groups :
                                  compact_groups[j].lr = T("Y")})
        /\ TableSum(stats.by_continent, "count")
               = Cardinality({j \in DOMAIN compact_groups :
                                  truthy(compact_groups[j].cn)})
        /\ TableSum(stats.by_affinity_bloc, "count")
               = Cardinality({j \in DOMAIN compact_groups :
                                  truthy(compact_groups[j].ab)})
        /\ compact_groups
               = [j \in DOMAIN people_groups |-> compact_group(heap[people_groups[j]])]

\* two groups of one religion, one least reached and one not, one of them
\* without an affinity bloc, have been counted
C29_Witness ==
    /\ prog = "viz" /\ pc = "done"
    /\ Len(compact_groups) = 2
    /\ Cardinality(DOMAIN stats.by_religion) = 1
    /\ stats.unreached_population > 0
    /\ stats.total_population > stats.unreached_population
    /\ \E j \in DOMAIN compact_groups : ~truthy(compact_groups[j].ab)

\* ------------------------------------------------------------------- C30
DatasetNames == {DATASETS[j].name : j \in DOMAIN DATASETS}

\* the datasets whose fetch has been started, in the order of the log
Attempted ==
    LET starts == SelectSeq(stdout, LAMBDA entry : entry.event = "fetching")
    IN [j \in DOMAIN starts |-> starts[j].dataset]

Logged(event, name) ==
    \E n \in DOMAIN stdout : stdout[n].event = event /\ stdout[n].dataset = name

\* the fetch of `name` returned data (None and the empty list are no data)
FetchReturnedData(name) ==
    \E n \in DOMAIN stdout : /\ stdout[n].event = "downloaded"
                             /\ stdout[n].dataset = name
                             /\ stdout[n].count > 0

LoopOver == prog = "fetch" /\ pc \in {"create_metadata", "done"}

MetadataWritten == "dataset_metadata.json" \in DOMAIN files

\* C30: fetch_all_datasets.main attempts the configured datasets in order and
\* holds exactly one result for each attempted one, whatever the earlier ones
\* did; a dataset is marked successful exactly when its fetch returned data and
\* its save succeeded; once the loop is over every dataset has been attempted;
\* the metadata file is written only when some dataset succeeded, and it lists
\* a fetched dataset exactly when that dataset succeeded.
C30_FetchFaultIsolated ==
    prog = "fetch" =>
        /\ error = "none"
        /\ Attempted = [j \in 1..(i - 1) |-> DATASETS[j].name]
        /\ DOMAIN results = {DATASETS[j].name : j \in 1..(i - 1)}
        /\ \A name \in DOMAIN results :
               results[name].success
                   <=> FetchReturnedData(name) /\ Logged("saved", name)
        /\ LoopOver => DOMAIN results = DatasetNames
        /\ MetadataWritten =>
               /\ \E name \in DatasetNames : results[name].success
               /\ \A name \in DatasetNames :
                      name \in DOMAIN files["dataset_metadata.json"]
                          <=> results[name].success

\* the first fetch failed, the second dataset was fetched but not saved, the
\* third was fetched and saved, and the metadata file was written
C30_Witness ==
    /\ prog = "fetch" /\ pc = "done"
    /\ Logged("fetch error", DATASETS[1].name)
    /\ FetchReturnedData(DATASETS[2].name) /\ Logged("save error", DATASETS[2].name)
    /\ results[DATASETS[3].name].success
    /\ MetadataWritten
    /\ DATASETS[3].name \in DOMAIN files["dataset_metadata.json"]
    /\ DATASETS[2].name \notin DOMAIN files["dataset_metadata.json"]
====
